---- MODULE Spec2Model ----
(***************************************************************************)
(* A model of mihoyo-checkin's core: the Scheduler timer loop              *)
(* (src/core/scheduler.py), the per-game sign protocol                     *)
(* (src/core/checkin.py), the QR login chain (checkin.py), and the account *)
(* runs started by the timer, by run_now and by the manual sign button     *)
(* (scheduler.py, ui/app.py, account_manager.py).                          *)
(*                                                                         *)
(* Several specifications share the module, each moving its own variables: *)
(*   Spec       the Scheduler: external calls and its loop threads         *)
(*   SpecClaim  CheckinService.sign / sign_all on one credential           *)
(*   SpecRun    concurrent account runs (scheduled, run_now, manual)       *)
(*   SpecLogin  QRLogin: QR request, polling, token exchanges, credential  *)
(*   SpecLock   the Scheduler's accesses to its state, lock by lock        *)
(*   SpecCfg    schedule time and callback changes, validation, config     *)
(*   SpecCred   the credential string, character by character              *)
(*   SpecDs     the DS signatures of get_ds and get_ds2                    *)
(*   SpecTick   the timer loop against the clock, minute by minute         *)
(*   SpecStore  AccountManager's accounts and current-account id           *)
(* SpecLoginLive is SpecLogin with the fairness of the polling thread.     *)
(***************************************************************************)
EXTENDS Integers, Sequences, FiniteSets, TLC

\* ------------------------------------------------------------------ bounds
\* loop threads one Scheduler may create in a behaviour
MaxThreads == 2
\* calendar dates the simulated clock runs through
MaxDate == 2
\* callback threads run_now may have alive at once
MaxRunNow == 1
\* sign_all calls made on one CheckinService
MaxCalls == 2
\* threads that run account sign-ins at the same time
MaxWorkers == 2
\* accounts in the store
NAccounts == 2
\* largest total_sign_day the claim-info endpoint reports
MaxDays == 5
\* largest number of awards the home endpoint lists
MaxRewards == 6
\* check calls one check_login sends
MaxPolls == 3

\* the HH:MM values the clock passes through in one day, in order: the
\* default schedule time of Scheduler.__init__ and the last minute of the day
\* (the minutes between them are skipped: no schedule time names them)
DayTimes == <<"08:00", "23:59">>

VARIABLES
    \* ---- Scheduler (scheduler.py 101-205)
    running,        \* self._running
    thread,         \* self._thread: id of the last thread created, 0 for None
    schedule_time,  \* self._schedule_time, "HH:MM"
    last_run_date,  \* self._last_run_date, 0 for None
    loop,           \* loop thread id -> its position in _run_loop and its locals
    clock,          \* datetime.now(): [date, slot], the time being DayTimes[slot]
    caller,         \* the external caller: "idle", or "joining" inside stop()
    stopped,        \* stop() has returned and start() was not called since
    fired,          \* the dates the timer invoked the callback for
    refired,        \* the timer invoked the callback for a date it had already fired for
    manual,         \* callback threads started by run_now that are still running
    \* ---- CheckinService.sign_all / sign on one credential (checkin.py 395-471)
    games,          \* the list sign_all was called with
    ci,             \* index in games of the game the loop is at
    spc,            \* position in sign_all / sign
    roles,          \* sign's roles: the list the role lookup gave, <<>> before it
    role_info,      \* sign's role_info: the first role's uid, 0 for None
    info,           \* sign's info: the data of the claim-info response read
    posts,          \* claim submissions sent by the sign call in progress
    results,        \* sign_all's results dict: game -> result
    causes,         \* per game processed: what the server answered its sign with
    ncalls,         \* sign_all calls made so far
    \* ---- account runs (scheduler.py 229-251, ui/app.py 317-348,
    \*      account_manager.py 185-193)
    is_active,      \* account id -> Account.is_active
    unsaved,        \* the accounts whose last_sign_at was written since the last save()
    worker,         \* thread -> what it runs and where it is in it
    \* ---- QRLogin and its caller (checkin.py 147-348, ui/app.py 501-658)
    flow,           \* who drives the chain: "login" (QRLogin.login) or "app" (the dialog)
    lpc,            \* position in the chain
    stop_flag,      \* self._stop_flag
    stop_at,        \* where the chain was when stop() was first called, "never" if not
    seen,           \* the answers check_login has polled, by kind
    uid,            \* check_login's first return value
    game_token,     \* check_login's second return value
    mid,            \* get_stoken's first return value
    stoken,         \* get_stoken's second return value
    cookie_token,   \* get_cookie_token's return value
    ltoken,         \* get_ltoken's return value
    stage,          \* stage -> "no" (not called), "called", or how its call ended
    cookie,         \* cookie_parts of the credential built, <<>> if none
    stored,         \* the account store was given the credential
    \* ---- the Scheduler's lock and the fields it is to guard (scheduler.py 105-195)
    lock,           \* self._lock: the loop thread holding it, NoHolder if free
    lk_running,     \* self._running
    lk_marker,      \* self._last_run_date, 0 for None
    lk_today,       \* datetime.now().date()
    lk_ext,         \* the external caller's position in start / stop / is_running
    lk_at,          \* loop thread id -> its position in _run_loop
    \* ---- SchedulerManager.update_schedule and what a tick reads
    \*      (scheduler.py 112-123, 148-171, 206-265)
    cf_schedule_time,   \* Scheduler._schedule_time, a string as its characters
    cf_callback,        \* Scheduler._callback, a function by its number
    cf_running,         \* Scheduler._running
    cf_config,          \* the AppConfig as last saved: schedule_time, schedule_enabled
    cf_out,             \* how the last external call ended: "ok" or "ValueError"
    cf_pc,              \* the loop thread followed: "none", "while" or "fire"
    cf_cmp,             \* the time the tick in progress compared the clock with
    cf_last_run_date,   \* Scheduler._last_run_date, 0 for None
    cf_clock,           \* datetime.now(): [date, slot], the minute being CfMinutes[slot]
    cf_log,             \* the last two firings since the last start: time compared,
                        \* callback invoked
    \* ---- the credential string (checkin.py 315-342, ui/app.py 622-636)
    cr_uid,             \* uid
    cr_pair,            \* two (stoken, mid) pairs, each to be built into a credential
    cr_cookie_token,    \* cookie_token
    cr_ltoken,          \* ltoken
    cr_cookie,          \* cookie of each pair, as its characters; <<>> before it is built
    \* ---- the DS request signatures (checkin.py 77-92)
    ds_log,             \* the evaluations of get_ds and get_ds2 made so far: what
                        \* the clock and the random source gave, and the value returned
    \* ---- the timer loop against the minutes of the clock (scheduler.py 143-191)
    tk_running,         \* self._running
    tk_time,            \* self._schedule_time
    tk_marker,          \* self._last_run_date, 0 for None
    tk_clock,           \* datetime.now(): [date, slot]
    tk_loop,            \* loop thread -> [pc, now, ticked]: its position, the date of
                        \* the now it read, and whether it passed its while test in
                        \* the present minute
    tk_fired,           \* the dates the timer invoked the callback for
    tk_minute,          \* the present minute so far: [steady, due]: the engine has
                        \* been running with the same schedule time since the minute
                        \* began; the date had not fired when the minute began
    \* ---- the account store (account_manager.py 60-179)
    st_accounts,        \* self.accounts: its keys in insertion order
    st_current,         \* self.config.current_account_id
    st_saved,           \* the last save() wrote both files
    st_call             \* the last call: [op, id, result]

schedVars == <<running, thread, schedule_time, last_run_date, loop, clock,
               caller, stopped, fired, refired, manual>>

claimVars == <<games, ci, spc, roles, role_info, info, posts, results, causes, ncalls>>

runVars == <<is_active, unsaved, worker>>

loginVars == <<flow, lpc, stop_flag, stop_at, seen, uid, game_token, mid, stoken,
               cookie_token, ltoken, stage, cookie, stored>>

lockVars == <<lock, lk_running, lk_marker, lk_today, lk_ext, lk_at>>

cfgVars == <<cf_schedule_time, cf_callback, cf_running, cf_config, cf_out, cf_pc, cf_cmp,
             cf_last_run_date, cf_clock, cf_log>>

credVars == <<cr_uid, cr_pair, cr_cookie_token, cr_ltoken, cr_cookie>>

dsVars == <<ds_log>>

tickVars == <<tk_running, tk_time, tk_marker, tk_clock, tk_loop, tk_fired, tk_minute>>

storeVars == <<st_accounts, st_current, st_saved, st_call>>

vars == <<schedVars, claimVars, runVars, loginVars, lockVars, cfgVars, credVars, dsVars, tickVars, storeVars>>

LoopIds == 1..MaxThreads
Dates == 1..MaxDate
Slots == 1..Len(DayTimes)
Times == {DayTimes[i] : i \in Slots}

\* datetime.now() as HH:MM
NowTime == DayTimes[clock.slot]

\* a thread object is somewhere in _run_loop; "none" is a thread that does not
\* exist: not created yet, or ended (its slot is taken again by a later start)
Alive(t) == loop[t].pc # "none"

\* threading.Thread.is_alive() of self._thread
ThreadAlive == thread # 0 /\ Alive(thread)

Free == {t \in LoopIds : loop[t].pc = "none"}

\* a loop thread's record outside the tick: no locals, no callback
NoThread == [pc |-> "none", nowDate |-> 0, cb |-> "none"]

\* ------------------------------------------------------------------ Init
SchedFrame == UNCHANGED <<claimVars, runVars, loginVars, lockVars, cfgVars, credVars, dsVars, tickVars, storeVars>>

SchedInit ==
    /\ running = FALSE
    /\ thread = 0
    /\ schedule_time = "08:00"
    /\ last_run_date = 0
    /\ loop = [t \in LoopIds |-> NoThread]
    /\ clock \in [date : {1}, slot : Slots]
    /\ caller = "idle"
    /\ stopped = FALSE
    /\ fired = {}
    /\ refired = FALSE
    /\ manual = 0

\* ------------------------------------------------------- external calls
\* Scheduler.set_schedule_time with a valid HH:MM string
SetScheduleTime(s) ==
    /\ caller = "idle"
    /\ schedule_time' = s
    /\ UNCHANGED <<running, thread, last_run_date, loop, clock, caller, stopped, fired,
                   refired, manual>>
    /\ SchedFrame

\* Scheduler.start
Start ==
    /\ caller = "idle"
    /\ stopped' = FALSE
    /\ IF running
         THEN UNCHANGED <<running, thread, loop>>
         ELSE /\ Free # {}
              /\ LET t == CHOOSE u \in Free : \A v \in Free : u <= v
                 IN /\ running' = TRUE
                    /\ thread' = t
                    /\ loop' = [loop EXCEPT ![t].pc = "wait"]
    /\ UNCHANGED <<schedule_time, last_run_date, clock, caller, fired, refired, manual>>
    /\ SchedFrame

\* Scheduler.stop up to the join: clears the flag, then joins a live thread
StopCall ==
    /\ caller = "idle"
    /\ running' = FALSE
    /\ IF ThreadAlive
         THEN caller' = "joining" /\ UNCHANGED stopped
         ELSE caller' = "idle" /\ stopped' = TRUE
    /\ UNCHANGED <<thread, schedule_time, last_run_date, loop, clock, fired, refired,
                   manual>>
    /\ SchedFrame

\* join(timeout=5) returns because the thread ended
StopJoined ==
    /\ caller = "joining"
    /\ ~ThreadAlive
    /\ caller' = "idle"
    /\ stopped' = TRUE
    /\ UNCHANGED <<running, thread, schedule_time, last_run_date, loop, clock, fired,
                   refired, manual>>
    /\ SchedFrame

\* what join(timeout=5) does when the 5 seconds pass with the thread alive
JoinExpiry == "return"

\* join(timeout=5) returns because 5 seconds passed; the thread is still in
\* its 30 second sleep or in the callback
StopTimeout ==
    /\ caller = "joining"
    /\ ThreadAlive
    /\ JoinExpiry = "return"
    /\ caller' = "idle"
    /\ stopped' = TRUE
    /\ UNCHANGED <<running, thread, schedule_time, last_run_date, loop, clock, fired,
                   refired, manual>>
    /\ SchedFrame

\* a run_now that records today as fired
RunNowMarksToday == clock.date

\* what run_now leaves in self._last_run_date: it does not touch it
RunNowMarker == last_run_date

\* Scheduler.run_now: the callback on a thread of its own, whatever the time,
\* the marker and the running flag are
RunNow ==
    /\ caller = "idle"
    /\ manual < MaxRunNow
    /\ manual' = manual + 1
    /\ last_run_date' = RunNowMarker
    /\ UNCHANGED <<running, thread, schedule_time, loop, clock, caller, stopped, fired,
                   refired>>
    /\ SchedFrame

\* a run_now thread's callback returns (or raises: the thread just ends)
RunNowDone ==
    /\ manual > 0
    /\ manual' = manual - 1
    /\ UNCHANGED <<running, thread, schedule_time, last_run_date, loop, clock, caller,
                   stopped, fired, refired>>
    /\ SchedFrame

\* ------------------------------------------------------- the loop thread
\* the thread's start or the end of time.sleep(30), then
\* while self._running: now = datetime.now(); hour, minute = the schedule
\* time; now.hour == hour and now.minute == minute (else straight to the sleep)
LoopTop(t) ==
    /\ loop[t].pc = "wait"
    /\ loop' = [loop EXCEPT ![t] =
                  IF ~running THEN NoThread
                  ELSE IF NowTime = schedule_time
                    THEN [@ EXCEPT !.pc = "gate", !.nowDate = clock.date, !.cb = "none"]
                    ELSE [@ EXCEPT !.pc = "wait", !.cb = "none"]]
    /\ UNCHANGED <<running, thread, schedule_time, last_run_date, clock, caller,
                   stopped, fired, refired, manual>>
    /\ SchedFrame

\* Scheduler._should_run_today: reads the clock again and compares the marker
should_run_today == last_run_date # clock.date

\* ... and self._should_run_today()
LoopGate(t) ==
    /\ loop[t].pc = "gate"
    /\ loop' = [loop EXCEPT ![t] =
                  IF should_run_today
                    THEN [@ EXCEPT !.pc = "record"]
                    ELSE [@ EXCEPT !.pc = "wait", !.nowDate = 0]]
    /\ UNCHANGED <<running, thread, schedule_time, last_run_date, clock, caller,
                   stopped, fired, refired, manual>>
    /\ SchedFrame

\* with self._lock: self._last_run_date = now.date(); then self._callback(),
\* called in the loop thread, which goes on only when it returns ("callback")
LoopRecord(t) ==
    /\ loop[t].pc = "record"
    /\ last_run_date' = loop[t].nowDate
    /\ fired' = fired \cup {loop[t].nowDate}
    /\ refired' = (refired \/ loop[t].nowDate \in fired)
    /\ loop' = [loop EXCEPT ![t].pc = "callback", ![t].cb = "running", ![t].nowDate = 0]
    /\ UNCHANGED <<running, thread, schedule_time, clock, caller, stopped, manual>>
    /\ SchedFrame

\* a loop thread that an exception of the callback ends
DiesOnException(l, raised) ==
    IF raised THEN NoThread ELSE [l EXCEPT !.cb = "none", !.pc = "wait"]

\* the callback returns, or raises and the except clause around the call
\* prints it: either way the loop thread goes on to time.sleep(30); cb keeps
\* "raised" while the thread is in that sleep
AfterCallback(l, raised) ==
    [l EXCEPT !.cb = IF raised THEN "raised" ELSE "none", !.pc = "wait"]

\* self._callback() ends
CallbackEnd(t) ==
    /\ loop[t].cb = "running"
    /\ \E raised \in BOOLEAN :
         loop' = [loop EXCEPT ![t] = AfterCallback(@, raised)]
    /\ UNCHANGED <<running, thread, schedule_time, last_run_date, clock, caller,
                   stopped, fired, refired, manual>>
    /\ SchedFrame

\* the wall clock moves to the next HH:MM of DayTimes, past midnight to the next
\* date.  A tick reads the clock twice in a row (line 152, then line 145 from
\* line 159) and writes the marker right after: the HH:MM of DayTimes are hours
\* apart, so of the clock's moves only a midnight can fall between the two
\* reads, and none between the second read and the write.
AdvanceTime ==
    /\ \A t \in LoopIds : loop[t].pc # "record"
    /\ \/ /\ clock.slot < Len(DayTimes)
          /\ \A t \in LoopIds : loop[t].pc # "gate"
          /\ clock' = [clock EXCEPT !.slot = @ + 1]
       \/ /\ clock.slot = Len(DayTimes) /\ clock.date < MaxDate
          /\ \A t \in LoopIds : loop[t].nowDate \in {0, clock.date}
          /\ clock' = [date |-> clock.date + 1, slot |-> 1]
    /\ UNCHANGED <<running, thread, schedule_time, last_run_date, loop, caller,
                   stopped, fired, refired, manual>>
    /\ SchedFrame

SchedNext ==
    \/ \E s \in Times : SetScheduleTime(s)
    \/ Start
    \/ StopCall
    \/ StopJoined
    \/ StopTimeout
    \/ RunNow
    \/ RunNowDone
    \/ \E t \in LoopIds : LoopTop(t)
    \/ \E t \in LoopIds : LoopGate(t)
    \/ \E t \in LoopIds : LoopRecord(t)
    \/ \E t \in LoopIds : CallbackEnd(t)
    \/ AdvanceTime


\* --------------------------------------------------- CheckinService (checkin.py)
\* the keys of GAMES
GAMES == {"genshin", "starrail", "zzz"}

\* the lists sign_all is called with: caller-ordered, possibly with a key
\* that GAMES does not hold
GameLists == {<<"genshin", "starrail", "zzz">>, <<"zzz", "genshin", "starrail">>,
              <<"starrail", "bogus", "genshin">>, <<"zzz">>, <<"starrail", "zzz">>}

\* the role lists the role endpoint answers with (a role is its game_uid)
RoleLists == {<<>>, <<1>>, <<2, 1>>}

\* What one HTTP call of MihoyoClient gives back.  k = "transport": requests
\* raises; k = "badjson": resp.json() raises; k = "json": a decoded envelope
\* with retcode rc (0 or not), with or without a "message", whose "data" is
\* null or an object holding the endpoint's fields.
Envelope(k, rc, msg, null) ==
    [k |-> k, rc |-> rc, msg |-> msg, null |-> null,
     list |-> <<>>, is_sign |-> FALSE, total |-> 0, awards |-> 0]

Unusable == {Envelope("transport", 0, FALSE, FALSE), Envelope("badjson", 0, FALSE, FALSE),
             Envelope("json", 0, FALSE, TRUE)}
     \cup {Envelope("json", -1, m, FALSE) : m \in BOOLEAN}

\* the total_sign_day values the claim-info endpoint reports, and the lengths
\* of the awards list the home endpoint answers with
TotalDays == {0, 1, MaxDays}

AwardCounts == {0, 2, MaxRewards}

RoleResps == Unusable
     \cup {[Envelope("json", 0, FALSE, FALSE) EXCEPT !.list = l] : l \in RoleLists}
InfoResps == Unusable
     \cup {[Envelope("json", 0, FALSE, FALSE) EXCEPT !.is_sign = b, !.total = n] :
              b \in BOOLEAN, n \in TotalDays}
PostResps == Unusable \cup {Envelope("json", 0, FALSE, FALSE)}
HomeResps == Unusable
     \cup {[Envelope("json", 0, FALSE, FALSE) EXCEPT !.awards = n] : n \in AwardCounts}

\* requests or resp.json() raises inside client.get / client.post
Raises(r) == r.k \in {"transport", "badjson"}

\* resp.get("data", {}) gives None and the .get on it raises AttributeError
NullData(r) == r.k = "json" /\ r.rc = 0 /\ r.null

\* how the server answered, for the failure taxonomy
CauseOf(r) == IF r.k = "transport" THEN "transport"
              ELSE IF r.k = "badjson" \/ NullData(r) THEN "malformed"
              ELSE IF r.rc # 0 THEN "app" ELSE "ok"

\* the tuple sign returns, as sign_all stores it
Result(success, tag, n, role) ==
    [success |-> success, message |-> [tag |-> tag, n |-> n], role_info |-> role]

NoInfo == [is_sign |-> FALSE, total |-> 0]

\* What the server answered one game's sign with.  how: CauseOf of the answer
\* that ended it, or "norole", or "skipped" for a key GAMES does not hold;
\* msg: the answer that made it fail carried a "message"; claimed, total: the
\* is_sign and total_sign_day of the claim-info read; entry: the awards list
\* read has an entry at the 1-based index total + 1.
Fact(how, msg, claimed, total, entry) ==
    [how |-> how, msg |-> msg, claimed |-> claimed, total |-> total, entry |-> entry]

NoFact(how) == Fact(how, FALSE, FALSE, 0, FALSE)

ClaimInit ==
    /\ games = <<>>
    /\ ci = 0
    /\ spc = "idle"
    /\ roles = <<>>
    /\ role_info = 0
    /\ info = NoInfo
    /\ posts = 0
    /\ results = <<>>
    /\ causes = <<>>
    /\ ncalls = 0

ClaimFrame == UNCHANGED <<schedVars, runVars, loginVars, lockVars, cfgVars, credVars, dsVars, tickVars, storeVars>>

\* a sign_all whose results hold the last game only
StoreAlone(r, cause) ==
    /\ results' = [g \in {games[ci]} |-> r]
    /\ causes' = Append(causes, cause)
    /\ spc' = "sleep"

\* sign returns r: results[game] = {...}, then time.sleep(3)
Store(r, cause) ==
    /\ results' = [g \in DOMAIN results \cup {games[ci]} |->
                     IF g = games[ci] THEN r ELSE results[g]]
    /\ causes' = Append(causes, cause)
    /\ spc' = "sleep"

\* an exception leaves sign and sign_all: no handler in either
Propagate(cause) ==
    /\ causes' = Append(causes, cause)
    /\ spc' = "raised"
    /\ UNCHANGED results

\* a loop that leaves out every other game
NextButOne(i) == i + 2

\* for game in games: the index of the game after the i-th
NextGame(i) == i + 1

\* a caller calls sign_all(gl): results = {}
SignAllCall(gl) ==
    /\ spc \in {"idle", "returned", "raised"}
    /\ ncalls < MaxCalls
    /\ ncalls' = ncalls + 1
    /\ games' = gl
    /\ ci' = 1
    /\ results' = <<>>
    /\ causes' = <<>>
    /\ spc' = "loop"
    /\ roles' = <<>> /\ role_info' = 0 /\ info' = NoInfo /\ posts' = 0
    /\ ClaimFrame

\* for game in games: if game in GAMES: ... self.sign(game); after the last
\* game, return results
SignAllNext ==
    /\ spc = "loop"
    /\ IF ci > Len(games)
         THEN spc' = "returned" /\ UNCHANGED <<ci, causes>>
         ELSE IF games[ci] \in GAMES
           THEN spc' = "roles" /\ UNCHANGED <<ci, causes>>
           ELSE /\ spc' = "loop" /\ ci' = NextGame(ci)
                /\ causes' = Append(causes, NoFact("skipped"))
    /\ UNCHANGED <<games, roles, role_info, info, posts, results, ncalls>>
    /\ ClaimFrame

\* a snapshot taken of the last role of the list
LastRole(l) == l[Len(l)]

\* role = roles[0]; role_info = {game_uid, nickname, level, region_name}
FirstRole(l) == l[1]

\* a sign that attaches a snapshot although no role was found
NoRoleWithSnapshot == Result(FALSE, "no_role", 0, 1)

\* return False, "未查询到游戏角色", None
NoRoleResult == Result(FALSE, "no_role", 0, 0)

\* sign: roles = self.get_game_roles(game); no role -> failure without a
\* snapshot; else role = roles[0]
GetGameRoles(r) ==
    /\ spc = "roles"
    /\ IF Raises(r) \/ NullData(r)
         THEN Propagate(NoFact(CauseOf(r))) /\ UNCHANGED <<roles, role_info>>
         ELSE IF r.rc # 0 \/ r.list = <<>>
           THEN /\ Store(NoRoleResult,
                         Fact(IF r.rc # 0 THEN "app" ELSE "norole",
                              r.rc # 0 /\ r.msg, FALSE, 0, FALSE))
                /\ UNCHANGED <<roles, role_info>>
           ELSE /\ roles' = r.list
                /\ role_info' = FirstRole(r.list)
                /\ spc' = "info"
                /\ UNCHANGED <<results, causes>>
    /\ UNCHANGED <<games, ci, info, posts, ncalls>>
    /\ ClaimFrame

\* a claim-info that says nothing is claimed whatever the server reports
IsSignNever(data) == FALSE

\* if info.get("is_sign")
IsSign(data) == data.is_sign

\* a sign that lets a non-zero retcode raise instead of returning a failure
RetcodeRaises == TRUE

\* whether a non-zero retcode of claim-info or of the submission raises: it
\* does not, sign returns (False, message, role_info)
RetcodeError == FALSE

\* the message of a failed envelope: the server's, else the call's fallback
FailMessage(r, fallback) == IF r.msg THEN "server" ELSE fallback

\* sign: info_resp = self.get_sign_info(...); retcode != 0 -> failure; is_sign
\* -> success "already signed (day N)" with no submission
GetSignInfo(r) ==
    /\ spc = "info"
    /\ IF Raises(r) \/ NullData(r) \/ (r.rc # 0 /\ RetcodeError)
         THEN Propagate(NoFact(CauseOf(r))) /\ UNCHANGED info
         ELSE IF r.rc # 0
           THEN /\ Store(Result(FALSE, FailMessage(r, "info_fallback"), 0, role_info),
                         Fact("app", r.msg, FALSE, 0, FALSE))
                /\ UNCHANGED info
           ELSE /\ info' = [is_sign |-> r.is_sign, total |-> r.total]
                /\ IF IsSign(r)
                     THEN Store(Result(TRUE, "already", r.total, role_info),
                                Fact("ok", FALSE, TRUE, r.total, FALSE))
                     ELSE spc' = "post" /\ UNCHANGED <<results, causes>>
    /\ UNCHANGED <<games, ci, roles, role_info, posts, ncalls>>
    /\ ClaimFrame

\* a sign that sends its submission twice
SubmitTwice(n) == n + 2

\* resp = self.client.post(config["sign_url"], ...): one call
SubmitOnce(n) == n + 1

\* sign: resp = self.client.post(sign_url, ...); retcode != 0 -> failure
PostSign(r) ==
    /\ spc = "post"
    /\ posts' = SubmitOnce(posts)
    /\ IF Raises(r) \/ (r.k = "json" /\ r.rc # 0 /\ RetcodeError)
         THEN Propagate(NoFact(CauseOf(r)))
         ELSE IF r.rc # 0
           THEN Store(Result(FALSE, FailMessage(r, "sign_fallback"), 0, role_info),
                      Fact("app", r.msg, FALSE, info.total, FALSE))
           ELSE spc' = "home" /\ UNCHANGED <<results, causes>>
    /\ UNCHANGED <<games, ci, roles, role_info, info, ncalls>>
    /\ ClaimFrame

\* a day that is the total itself
DayIsTotal(total) == total

\* day = info.get("total_sign_day", 0) + 1
Day(total) == total + 1

\* sign after a successful submission: rewards = self.get_rewards(game);
\* day = total_sign_day + 1; the reward of that day if the list reaches it
GetRewards(r) ==
    /\ spc = "home"
    /\ IF Raises(r) \/ NullData(r)
         THEN Propagate(NoFact(CauseOf(r)))
         ELSE LET n == IF r.rc # 0 THEN 0 ELSE r.awards
                  day == Day(info.total)
                  fact == Fact("ok", FALSE, FALSE, info.total, info.total + 1 \in 1..n)
              IN IF n > 0 /\ day <= n
                   THEN Store(Result(TRUE, "reward", day, role_info), fact)
                   ELSE Store(Result(TRUE, "signed", 0, role_info), fact)
    /\ UNCHANGED <<games, ci, roles, role_info, info, posts, ncalls>>
    /\ ClaimFrame

\* time.sleep(3) ends; the loop goes to the next game
SignAllSleepEnd ==
    /\ spc = "sleep"
    /\ spc' = "loop"
    /\ ci' = NextGame(ci)
    /\ roles' = <<>> /\ role_info' = 0 /\ info' = NoInfo /\ posts' = 0
    /\ UNCHANGED <<games, results, causes, ncalls>>
    /\ ClaimFrame

ClaimNext ==
    \/ \E gl \in GameLists : SignAllCall(gl)
    \/ SignAllNext
    \/ \E r \in RoleResps : GetGameRoles(r)
    \/ \E r \in InfoResps : GetSignInfo(r)
    \/ \E r \in PostResps : PostSign(r)
    \/ \E r \in HomeResps : GetRewards(r)
    \/ SignAllSleepEnd

\* --------------------------------------- account runs (scheduler.py, ui/app.py)
Workers == 1..MaxWorkers
AcctIds == 1..NAccounts

\* Account.enabled_games: the first account has two games enabled, the
\* others one
EnabledGames(a) == IF a = 1 THEN <<"genshin", "zzz">> ELSE <<"starrail">>

\* the ids from lo up that pass, ascending: the dict order of the store
RECURSIVE IdsFrom(_, _)
IdsFrom(lo, active) ==
    IF lo > NAccounts THEN <<>>
    ELSE (IF active[lo] THEN <<lo>> ELSE <<>>) \o IdsFrom(lo + 1, active)

\* AccountManager.get_active_accounts
get_active_accounts == IdsFrom(1, is_active)

\* a thread that runs nothing (not started, or its run has ended)
Idle == [kind |-> "none", pc |-> "idle", todo |-> <<>>, gi |-> 0, caught |-> FALSE]

RunInit ==
    /\ is_active \in [AcctIds -> BOOLEAN]
    /\ unsaved = {}
    /\ worker = [w \in Workers |-> Idle]

RunFrame == UNCHANGED <<schedVars, claimVars, loginVars, lockVars, cfgVars, credVars, dsVars, tickVars, storeVars>>

FreeWorkers == {w \in Workers : worker[w].pc = "idle"}
FirstFree == CHOOSE w \in FreeWorkers : \A v \in FreeWorkers : w <= v

\* the run starts on its first account, or ends at once without one; todo
\* holds the account being processed and those still to come
Begin(kind, accts) ==
    IF accts = <<>> THEN Idle
    ELSE [kind |-> kind, pc |-> "sign", todo |-> accts, gi |-> 1, caught |-> FALSE]

\* the timer loop calls SchedulerManager._do_scheduled_sign in its thread
ScheduledFire ==
    /\ FreeWorkers # {}
    /\ \A w \in Workers : worker[w].kind # "scheduled"
    /\ worker' = [worker EXCEPT ![FirstFree] = Begin("scheduled", get_active_accounts)]
    /\ UNCHANGED <<is_active, unsaved>>
    /\ RunFrame

\* SchedulerManager.sign_now -> Scheduler.run_now: _do_scheduled_sign on a new
\* thread, whatever else is running
SignNow ==
    /\ FreeWorkers # {}
    /\ worker' = [worker EXCEPT ![FirstFree] = Begin("run_now", get_active_accounts)]
    /\ UNCHANGED <<is_active, unsaved>>
    /\ RunFrame

\* MihoyoCheckinApp._do_sign_all(account): sign_thread on a new thread
ManualSignAll(a) ==
    /\ FreeWorkers # {}
    /\ worker' = [worker EXCEPT ![FirstFree] = Begin("manual", <<a>>)]
    /\ UNCHANGED <<is_active, unsaved>>
    /\ RunFrame

Account(w) == worker[w].todo[1]

\* the worker goes to the account after this one, or ends
NextAccount(w) ==
    LET rest == Tail(worker[w].todo)
    IN IF rest = <<>> THEN Idle
       ELSE [worker[w] EXCEPT !.todo = rest, !.gi = 1, !.pc = "sign"]

\* an except clause that gives the run up
AbortRun(w) == Idle

\* except Exception as e: _do_scheduled_sign prints and the for loop goes on
\* (without the sleep and without the update); sign_thread of the manual
\* button shows the error and ends
OnException(w) ==
    IF worker[w].kind = "manual" \/ Len(worker[w].todo) = 1
      THEN Idle
      ELSE [NextAccount(w) EXCEPT !.caught = TRUE]

\* a run that goes to its callback without the update
DeliverWithoutUpdate(w) == [worker[w] EXCEPT !.pc = "callback"]

\* sign_all returned its results: the scheduled run updates the account next,
\* the manual one writes its log entries first
AfterSignAll(w) ==
    [worker[w] EXCEPT !.pc = IF worker[w].kind = "manual" THEN "callback" ELSE "update"]

\* sign went through game gi without a submission in flight: the next game, or
\* sign_all returns
AfterGame(w) ==
    IF worker[w].gi < Len(EnabledGames(Account(w)))
      THEN [worker[w] EXCEPT !.gi = @ + 1]
      ELSE AfterSignAll(w)

\* service.sign_all(account.enabled_games), one game: sign raises (transport,
\* malformed answer), returns without submitting (no role, failed or
\* already-claimed info), or sends the claim submission
SignGame(w) ==
    /\ worker[w].pc = "sign"
    /\ \E outcome \in {"raise", "return", "post"} :
         worker' = [worker EXCEPT ![w] =
                      CASE outcome = "raise" -> OnException(w)
                        [] outcome = "return" -> AfterGame(w)
                        [] OTHER -> [@ EXCEPT !.pc = "posting"]]
    /\ UNCHANGED <<is_active, unsaved>>
    /\ RunFrame

\* the submission's answer arrives: sign returns a result, or the call (or the
\* reward lookup after it) raises
PostAnswered(w) ==
    /\ worker[w].pc = "posting"
    /\ \E raised \in BOOLEAN :
         worker' = [worker EXCEPT ![w] = IF raised THEN OnException(w) ELSE AfterGame(w)]
    /\ UNCHANGED <<is_active, unsaved>>
    /\ RunFrame

\* AccountManager.update_last_sign_time, the field write:
\* self.accounts[account_id].last_sign_at = datetime.now().isoformat()
UpdateWrite(w) ==
    /\ worker[w].pc = "update"
    /\ unsaved' = unsaved \cup {Account(w)}
    /\ worker' = [worker EXCEPT ![w].pc = "saving"]
    /\ UNCHANGED is_active
    /\ RunFrame

\* AccountManager.update_last_sign_time, self.save() done: every account is
\* on disk as it is in memory; the scheduled run calls sign_callback next, the
\* manual one is finished
UpdateSaved(w) ==
    /\ worker[w].pc = "saving"
    /\ unsaved' = {}
    /\ worker' = [worker EXCEPT ![w] =
                    IF @.kind = "manual" THEN Idle ELSE [@ EXCEPT !.pc = "callback"]]
    /\ UNCHANGED is_active
    /\ RunFrame

\* self.sign_callback(account.id, results) then time.sleep(5) of the scheduled
\* run; the log_manager.add_log calls of the manual one; either may raise
ResultsDelivered(w) ==
    /\ worker[w].pc = "callback"
    /\ \E raised \in BOOLEAN :
         worker' = [worker EXCEPT ![w] =
                      IF raised THEN OnException(w)
                      ELSE IF @.kind = "manual" THEN [@ EXCEPT !.pc = "update"]
                      ELSE NextAccount(w)]
    /\ UNCHANGED <<is_active, unsaved>>
    /\ RunFrame

RunNext ==
    \/ ScheduledFire
    \/ SignNow
    \/ \E a \in AcctIds : ManualSignAll(a)
    \/ \E w \in Workers : SignGame(w)
    \/ \E w \in Workers : PostAnswered(w)
    \/ \E w \in Workers : UpdateWrite(w)
    \/ \E w \in Workers : UpdateSaved(w)
    \/ \E w \in Workers : ResultsDelivered(w)

\* ------------------------------------------- QRLogin (checkin.py 147-348)
\* Python's None, as an f-string prints it
None == "None"

\* "not x" of Python for the values a token takes
Falsy(v) == v \in {None, ""}

\* the stages of the exchange chain, in the order login calls them
Stages == <<"qr", "check", "stoken", "cookie", "ltoken">>
StageSet == {Stages[i] : i \in DOMAIN Stages}

\* the retcodes check_login polls again on
RateLimitCodes == {-3503, -102}

\* What one HTTP call of QRLogin gives back.  k = "transport": the session
\* call raises; k = "badjson": resp.json() raises; k = "json": a decoded
\* envelope with retcode rc whose "data" is null or an object.
QrEnvelope(k, rc, null) == [k |-> k, rc |-> rc, null |-> null]

\* the answers any endpoint may give that carry nothing of its own
QrUnusable == {QrEnvelope("transport", 0, FALSE), QrEnvelope("badjson", 0, FALSE),
               QrEnvelope("json", 0, TRUE), QrEnvelope("json", -1, FALSE)}

\* requests or resp.json() raises
QrRaises(r) == r.k \in {"transport", "badjson"}

\* the answers of the QR request: retcode 0 with data.url
QrCodeResps == {[k |-> r.k, rc |-> r.rc, null |-> r.null, url |-> ""] : r \in QrUnusable}
     \cup {[k |-> "json", rc |-> 0, null |-> FALSE, url |-> u] : u \in {"", "url?ticket=t1"}}

\* the answers of the check call: the retryable retcodes, and retcode 0 with
\* data.stat and, for Confirmed, data.payload.raw: a JSON text holding uid and
\* token ("json"), a text that is not JSON ("invalid"), or no payload ("absent")
PollBase(r) == [k |-> r.k, rc |-> r.rc, null |-> r.null, stat |-> None,
                raw |-> "absent", uid |-> None, token |-> None]

PollResps == {PollBase(r) : r \in QrUnusable}
     \cup {PollBase(QrEnvelope("json", c, FALSE)) : c \in RateLimitCodes}
     \cup {[PollBase(QrEnvelope("json", 0, FALSE)) EXCEPT !.stat = s] :
              s \in {"Init", "Scanned", "Expired", "Other"}}
     \cup {[PollBase(QrEnvelope("json", 0, FALSE)) EXCEPT !.stat = "Confirmed", !.raw = w] :
              w \in {"invalid", "absent"}}
     \cup {[PollBase(QrEnvelope("json", 0, FALSE)) EXCEPT
                 !.stat = "Confirmed", !.raw = "json", !.uid = u, !.token = g] :
              u \in {"u1", None}, g \in {"g1", None}}

\* the answers of the session-token exchange: data.user_info.mid, data.token.token
StokenResps == {[k |-> r.k, rc |-> r.rc, null |-> r.null, mid |-> None, stoken |-> None] :
                   r \in QrUnusable}
     \cup {[k |-> "json", rc |-> 0, null |-> FALSE, mid |-> m, stoken |-> s] :
              m \in {"m1", None}, s \in {"s1", None}}

\* the answers of the cookie-token and long-token exchanges: data.cookie_token,
\* data.ltoken
TokenResps(v) == {[k |-> r.k, rc |-> r.rc, null |-> r.null, value |-> None] : r \in QrUnusable}
     \cup {[k |-> "json", rc |-> 0, null |-> FALSE, value |-> x] : x \in {v, None}}

\* what a check answer is, for the record of the answers polled
PollKind(r) ==
    IF QrRaises(r) THEN "transport"
    ELSE IF r.rc \in RateLimitCodes THEN "limit"
    ELSE IF r.rc # 0 THEN "fail"
    ELSE IF r.null \/ (r.stat = "Confirmed" /\ r.raw = "invalid") THEN "malformed"
    ELSE r.stat

\* an answer as the record of polled answers keeps it: its kind and what its
\* payload held
Polled(r) == [kind |-> PollKind(r), uid |-> r.uid, token |-> r.token]

\* how a stage's call ended, from its answer
StageOutcome(r, ok) ==
    IF r.k = "transport" THEN "transport"
    ELSE IF r.k = "badjson" \/ (r.rc = 0 /\ r.null) THEN "malformed"
    ELSE IF r.rc # 0 THEN "app"
    ELSE IF ok THEN "ok" ELSE "empty"

LoginFrame == UNCHANGED <<schedVars, claimVars, runVars, lockVars, cfgVars, credVars, dsVars, tickVars, storeVars>>

\* QRLogin.__init__, before the caller starts anything
LoginInit ==
    /\ flow = "none"
    /\ lpc = "new"
    /\ stop_flag = FALSE
    /\ stop_at = "never"
    /\ seen = <<>>
    /\ uid = None /\ game_token = None
    /\ mid = None /\ stoken = None
    /\ cookie_token = None /\ ltoken = None
    /\ stage = [s \in StageSet |-> "no"]
    /\ cookie = <<>>
    /\ stored = FALSE

\* the chain ends without a credential: login returns (None, None, None),
\* _wait_for_login falls through its ifs
NoCredential == "none"

\* QRLogin.stop, from the caller's thread at any moment
QrStop ==
    /\ stop_flag' = TRUE
    /\ stop_at' = IF stop_at = "never" THEN lpc ELSE stop_at
    /\ UNCHANGED <<flow, lpc, seen, uid, game_token, mid, stoken, cookie_token, ltoken,
                   stage, cookie, stored>>
    /\ LoginFrame

\* QRLogin.login, or _show_add_account_dialog -> get_qr_url: the QR request is sent
LoginStart(f) ==
    /\ lpc = "new"
    /\ flow' = f
    /\ lpc' = "qrcode"
    /\ stage' = [stage EXCEPT !["qr"] = "called"]
    /\ UNCHANGED <<stop_flag, stop_at, seen, uid, game_token, mid, stoken, cookie_token,
                   ltoken, cookie, stored>>
    /\ LoginFrame

\* get_qr_code: retcode != 0 -> (None, None); else url = data["data"]["url"];
\* the caller goes on only with a url (the app then starts _wait_for_login on
\* a thread)
GetQrCode(r) ==
    /\ lpc = "qrcode"
    /\ stage' = [stage EXCEPT !["qr"] = StageOutcome(r, r.url # "")]
    /\ lpc' = IF QrRaises(r) \/ (r.rc = 0 /\ r.null) THEN "raised"
              ELSE IF r.rc # 0 \/ r.url = "" THEN NoCredential
              ELSE "enter"
    /\ UNCHANGED <<flow, stop_flag, stop_at, seen, uid, game_token, mid, stoken,
                   cookie_token, ltoken, cookie, stored>>
    /\ LoginFrame

\* check_login entry: self._stop_flag = False
CheckLoginEnter ==
    /\ lpc = "enter"
    /\ stop_flag' = FALSE
    /\ lpc' = "test"
    /\ stage' = [stage EXCEPT !["check"] = "called"]
    /\ UNCHANGED <<flow, stop_at, seen, uid, game_token, mid, stoken, cookie_token, ltoken,
                   cookie, stored>>
    /\ LoginFrame

\* check_login returns (u, g) after an answer of kind how
CheckReturns(u, g, how) ==
    /\ uid' = u
    /\ game_token' = g
    /\ stage' = [stage EXCEPT !["check"] = how]
    /\ lpc' = "checked"

\* a loop that never looks at the flag
LoopForever == TRUE

\* while not self._stop_flag
LoopGoesOn == ~stop_flag

\* while not self._stop_flag: ... ; return None, None
PollTest ==
    /\ lpc = "test"
    /\ IF LoopGoesOn
         THEN lpc' = "sleep" /\ UNCHANGED <<uid, game_token, stage>>
         ELSE CheckReturns(None, None, "stopped")
    /\ UNCHANGED <<flow, stop_flag, stop_at, seen, mid, stoken, cookie_token, ltoken,
                   cookie, stored>>
    /\ LoginFrame

\* time.sleep(2) ends and the check call is sent
PollSend ==
    /\ lpc = "sleep"
    /\ Len(seen) < MaxPolls
    /\ lpc' = "poll"
    /\ UNCHANGED <<flow, stop_flag, stop_at, seen, uid, game_token, mid, stoken,
                   cookie_token, ltoken, stage, cookie, stored>>
    /\ LoginFrame

\* a loop that polls again on every non-zero retcode
RetryAny(rc) == TRUE

\* if data.get("retcode") in [-3503, -102]: continue
Retryable(rc) == rc \in RateLimitCodes

\* a Confirmed branch that hands the two values back the other way round
ConfirmedSwapped(r) == <<r.token, r.uid>>

\* raw_data = json.loads(raw); return raw_data.get("uid"), raw_data.get("token")
ConfirmedResult(r) == <<r.uid, r.token>>

\* a loop that gives up on an answer that is no envelope
TransportGivesUp == TRUE

\* whether an answer that is no envelope (the call or resp.json() raised)
\* ends check_login: it does not, except Exception: continue
TransportEnds == FALSE

\* the check call is answered
PollAnswer(r) ==
    /\ lpc = "poll"
    /\ seen' = Append(seen, Polled(r))
    /\ IF QrRaises(r)
         THEN IF TransportEnds
                THEN CheckReturns(None, None, "transport")
                ELSE lpc' = "test" /\ UNCHANGED <<uid, game_token, stage>>
         ELSE IF r.rc # 0
           THEN IF Retryable(r.rc)
                  THEN lpc' = "test" /\ UNCHANGED <<uid, game_token, stage>>
                  ELSE CheckReturns(None, None, "app")
           ELSE IF r.null \/ (r.stat = "Confirmed" /\ r.raw = "invalid")
             THEN /\ lpc' = "raised"
                  /\ stage' = [stage EXCEPT !["check"] = "malformed"]
                  /\ UNCHANGED <<uid, game_token>>
             ELSE IF r.stat = "Confirmed"
               THEN CheckReturns(ConfirmedResult(r)[1], ConfirmedResult(r)[2],
                                 IF Falsy(ConfirmedResult(r)[1]) THEN "empty" ELSE "ok")
               ELSE IF r.stat = "Expired"
                 THEN CheckReturns(None, None, "expired")
                 ELSE lpc' = "test" /\ UNCHANGED <<uid, game_token, stage>>
    /\ UNCHANGED <<flow, stop_flag, stop_at, mid, stoken, cookie_token, ltoken, cookie, stored>>
    /\ LoginFrame

\* a caller that goes on whatever check_login returned
AcceptAnything == TRUE

\* the caller's test of what check_login returned: login goes on with a uid,
\* _wait_for_login with a uid and a game token
CheckAccepted == IF flow = "login" THEN ~Falsy(uid) ELSE ~Falsy(uid) /\ ~Falsy(game_token)

\* ... and the session-token exchange is sent, or the chain ends
AfterCheck ==
    /\ lpc = "checked"
    /\ seen' = <<>>
    /\ IF CheckAccepted
         THEN lpc' = "stoken" /\ stage' = [stage EXCEPT !["stoken"] = "called"]
         ELSE lpc' = NoCredential /\ UNCHANGED stage
    /\ UNCHANGED <<flow, stop_flag, stop_at, uid, game_token, mid, stoken, cookie_token,
                   ltoken, cookie, stored>>
    /\ LoginFrame

\* get_stoken, then "if not stoken" (login) / "if stoken" (_wait_for_login);
\* with a game token of None the server is asked with "game_token": null
GetStoken(r) ==
    /\ lpc = "stoken"
    /\ stage' = [stage EXCEPT !["stoken"] = StageOutcome(r, ~Falsy(r.stoken)),
                              !["cookie"] = IF StageOutcome(r, ~Falsy(r.stoken)) = "ok"
                                              THEN "called" ELSE @]
    /\ IF QrRaises(r) \/ (r.rc = 0 /\ r.null)
         THEN lpc' = "raised" /\ UNCHANGED <<mid, stoken>>
         ELSE IF r.rc # 0
           THEN lpc' = NoCredential /\ UNCHANGED <<mid, stoken>>
           ELSE /\ mid' = r.mid
                /\ stoken' = r.stoken
                /\ lpc' = IF Falsy(r.stoken) THEN NoCredential ELSE "cookie"
    /\ UNCHANGED <<flow, stop_flag, stop_at, seen, uid, game_token, cookie_token, ltoken,
                   cookie, stored>>
    /\ LoginFrame

\* get_cookie_token / get_ltoken: data.<field> on retcode 0, else None; the
\* session call and resp.json() are outside any try
OptionalToken(r) == IF r.rc = 0 THEN r.value ELSE None

\* get_cookie_token answered; get_ltoken is sent next
GetCookieToken(r) ==
    /\ lpc = "cookie"
    /\ stage' = [stage EXCEPT !["cookie"] = StageOutcome(r, ~Falsy(r.value)),
                              !["ltoken"] = IF QrRaises(r) \/ (r.rc = 0 /\ r.null)
                                              THEN @ ELSE "called"]
    /\ IF QrRaises(r) \/ (r.rc = 0 /\ r.null)
         THEN lpc' = "raised" /\ UNCHANGED cookie_token
         ELSE lpc' = "ltoken" /\ cookie_token' = OptionalToken(r)
    /\ UNCHANGED <<flow, stop_flag, stop_at, seen, uid, game_token, mid, stoken, ltoken,
                   cookie, stored>>
    /\ LoginFrame

\* get_ltoken answered
GetLtoken(r) ==
    /\ lpc = "ltoken"
    /\ stage' = [stage EXCEPT !["ltoken"] = StageOutcome(r, ~Falsy(r.value))]
    /\ IF QrRaises(r) \/ (r.rc = 0 /\ r.null)
         THEN lpc' = "raised" /\ UNCHANGED ltoken
         ELSE lpc' = "build" /\ ltoken' = OptionalToken(r)
    /\ UNCHANGED <<flow, stop_flag, stop_at, seen, uid, game_token, mid, stoken,
                   cookie_token, cookie, stored>>
    /\ LoginFrame

\* one f"key={value}" part
Part(key, value) == <<key, value>>

\* cookie_parts with the long-token fields put before the cookie-token fields
LtokenFirstParts(u, st, m, ct, lt) ==
    <<Part("stuid", u), Part("ltuid", u), Part("ltuid_v2", u), Part("account_id", u),
      Part("account_id_v2", u), Part("stoken", st), Part("mid", m), Part("ltmid_v2", m)>>
    \o (IF Falsy(lt) THEN <<>> ELSE <<Part("ltoken", lt), Part("ltoken_v2", lt)>>)
    \o (IF Falsy(ct) THEN <<>>
        ELSE <<Part("cookie_token", ct), Part("cookie_token_v2", ct),
               Part("account_mid_v2", m)>>)

\* cookie_parts of login and of _wait_for_login, before "; ".join
CookieParts(u, st, m, ct, lt) ==
    <<Part("stuid", u), Part("ltuid", u), Part("ltuid_v2", u), Part("account_id", u),
      Part("account_id_v2", u), Part("stoken", st), Part("mid", m), Part("ltmid_v2", m)>>
    \o (IF Falsy(ct) THEN <<>>
        ELSE <<Part("cookie_token", ct), Part("cookie_token_v2", ct),
               Part("account_mid_v2", m)>>)
    \o (IF Falsy(lt) THEN <<>> ELSE <<Part("ltoken", lt), Part("ltoken_v2", lt)>>)

\* cookie = "; ".join(cookie_parts); login returns it, _wait_for_login goes
\* on to the nickname lookup and the account store
BuildCookie ==
    /\ lpc = "build"
    /\ cookie' = CookieParts(uid, stoken, mid, cookie_token, ltoken)
    /\ lpc' = IF flow = "login" THEN "done" ELSE "store"
    /\ UNCHANGED <<flow, stop_flag, stop_at, seen, uid, game_token, mid, stoken,
                   cookie_token, ltoken, stage, stored>>
    /\ LoginFrame

\* _wait_for_login: service.get_user_info() (which may raise), then
\* add_account or update_account with the cookie
StoreAccount ==
    /\ lpc = "store"
    /\ \E raised \in BOOLEAN :
         IF raised THEN lpc' = "raised" /\ UNCHANGED stored
         ELSE lpc' = "done" /\ stored' = TRUE
    /\ UNCHANGED <<flow, stop_flag, stop_at, seen, uid, game_token, mid, stoken,
                   cookie_token, ltoken, stage, cookie>>
    /\ LoginFrame

LoginNext ==
    \/ QrStop
    \/ \E f \in {"login", "app"} : LoginStart(f)
    \/ \E r \in QrCodeResps : GetQrCode(r)
    \/ CheckLoginEnter
    \/ PollTest
    \/ PollSend
    \/ \E r \in PollResps : PollAnswer(r)
    \/ AfterCheck
    \/ \E r \in StokenResps : GetStoken(r)
    \/ \E r \in TokenResps("c1") : GetCookieToken(r)
    \/ \E r \in TokenResps("l1") : GetLtoken(r)
    \/ BuildCookie
    \/ StoreAccount

\* ------------------------- the Scheduler's lock (scheduler.py 105-110, 143-195)
\* The same Scheduler once more, one step per access to self._running and
\* self._last_run_date, with self._lock as the code takes and releases it.
LockFrame == UNCHANGED <<schedVars, claimVars, runVars, loginVars, cfgVars, credVars, dsVars, tickVars, storeVars>>

\* the external caller (the UI thread) as a holder of the lock; the loop
\* threads are LoopIds
Caller == 0

NoHolder == 0 - 1

Actors == {Caller} \cup LoopIds

\* Scheduler.__init__
LockInit ==
    /\ lock = NoHolder
    /\ lk_running = FALSE
    /\ lk_marker = 0
    /\ lk_today = 1
    /\ lk_ext = "idle"
    /\ lk_at = [t \in LoopIds |-> "none"]

\* the external caller enters start(), stop() or is_running() (the last also
\* from update_schedule and get_status); run_now touches neither field
LkCall(m) ==
    /\ lk_ext = "idle"
    /\ lk_ext' = m
    /\ UNCHANGED <<lock, lk_running, lk_marker, lk_today, lk_at>>
    /\ LockFrame

\* start: if self._running: return
LkStartTest ==
    /\ lk_ext = "start_test"
    /\ lk_ext' = IF lk_running THEN "idle" ELSE "start_set"
    /\ UNCHANGED <<lock, lk_running, lk_marker, lk_today, lk_at>>
    /\ LockFrame

\* start: self._running = True, then the new thread is created and started
LkStartSet ==
    /\ lk_ext = "start_set"
    /\ \E t \in LoopIds :
         /\ lk_at[t] = "none"
         /\ \A u \in LoopIds : lk_at[u] = "none" => t <= u
         /\ lk_at' = [lk_at EXCEPT ![t] = "while"]
    /\ lk_running' = TRUE
    /\ lk_ext' = "idle"
    /\ UNCHANGED <<lock, lk_marker, lk_today>>
    /\ LockFrame

\* stop: self._running = False; the join that follows touches neither field
LkStopSet ==
    /\ lk_ext = "stop_set"
    /\ lk_running' = FALSE
    /\ lk_ext' = "idle"
    /\ UNCHANGED <<lock, lk_marker, lk_today, lk_at>>
    /\ LockFrame

\* is_running: return self._running
LkIsRunning ==
    /\ lk_ext = "is_running"
    /\ lk_ext' = "idle"
    /\ UNCHANGED <<lock, lk_running, lk_marker, lk_today, lk_at>>
    /\ LockFrame

\* _run_loop: while self._running, then the hour and minute test, which
\* passes (on to _should_run_today) or not (on to the sleep)
LkWhile(t) ==
    /\ lk_at[t] = "while"
    /\ \E minute \in BOOLEAN :
         lk_at' = [lk_at EXCEPT ![t] =
                     IF ~lk_running THEN "none"
                     ELSE IF minute THEN "should" ELSE "sleep"]
    /\ UNCHANGED <<lock, lk_running, lk_marker, lk_today, lk_ext>>
    /\ LockFrame

\* _should_run_today: return self._last_run_date != today
LkShould(t) ==
    /\ lk_at[t] = "should"
    /\ lk_at' = [lk_at EXCEPT ![t] = IF lk_marker # lk_today THEN "acquire" ELSE "sleep"]
    /\ UNCHANGED <<lock, lk_running, lk_marker, lk_today, lk_ext>>
    /\ LockFrame

\* with self._lock: entered when the lock is free
LkAcquire(t) ==
    /\ lk_at[t] = "acquire"
    /\ lock = NoHolder
    /\ lock' = t
    /\ lk_at' = [lk_at EXCEPT ![t] = "write"]
    /\ UNCHANGED <<lk_running, lk_marker, lk_today, lk_ext>>
    /\ LockFrame

\* self._last_run_date = now.date().isoformat()
LkWrite(t) ==
    /\ lk_at[t] = "write"
    /\ lk_marker' = lk_today
    /\ lk_at' = [lk_at EXCEPT ![t] = "release"]
    /\ UNCHANGED <<lock, lk_running, lk_today, lk_ext>>
    /\ LockFrame

\* the end of the with block, then the callback and on to the sleep
LkRelease(t) ==
    /\ lk_at[t] = "release"
    /\ lock' = NoHolder
    /\ lk_at' = [lk_at EXCEPT ![t] = "sleep"]
    /\ UNCHANGED <<lk_running, lk_marker, lk_today, lk_ext>>
    /\ LockFrame

\* time.sleep(30) ends
LkSleep(t) ==
    /\ lk_at[t] = "sleep"
    /\ lk_at' = [lk_at EXCEPT ![t] = "while"]
    /\ UNCHANGED <<lock, lk_running, lk_marker, lk_today, lk_ext>>
    /\ LockFrame

\* midnight passes, no tick being between its reading of the clock and its
\* write of the date (what a midnight inside a tick does is Spec's matter)
LkMidnight ==
    /\ lk_today < MaxDate
    /\ \A t \in LoopIds : lk_at[t] \notin {"should", "acquire", "write"}
    /\ lk_today' = lk_today + 1
    /\ UNCHANGED <<lock, lk_running, lk_marker, lk_ext, lk_at>>
    /\ LockFrame

LockNext ==
    \/ \E m \in {"start_test", "stop_set", "is_running"} : LkCall(m)
    \/ LkStartTest
    \/ LkStartSet
    \/ LkStopSet
    \/ LkIsRunning
    \/ \E t \in LoopIds : LkWhile(t)
    \/ \E t \in LoopIds : LkShould(t)
    \/ \E t \in LoopIds : LkAcquire(t)
    \/ \E t \in LoopIds : LkWrite(t)
    \/ \E t \in LoopIds : LkRelease(t)
    \/ \E t \in LoopIds : LkSleep(t)
    \/ LkMidnight

\* the actor's next step reads or writes self._running
AtRunning(a) ==
    IF a = Caller THEN lk_ext \in {"start_test", "start_set", "stop_set", "is_running"}
    ELSE lk_at[a] = "while"

\* the actor's next step reads or writes self._last_run_date
AtMarker(a) ==
    IF a = Caller THEN FALSE ELSE lk_at[a] \in {"should", "write"}

\* ------ the schedule time and the callback (scheduler.py 112-123, 148-171, 206-265)
\* The Scheduler under its SchedulerManager, with the schedule time as the
\* string it is and one loop thread followed (the threads a restart within the
\* sleep leaves behind run the same code; Spec has them).
CfgFrame == UNCHANGED <<schedVars, claimVars, runVars, loginVars, lockVars, credVars, dsVars, tickVars, storeVars>>

Digits == <<"0", "1", "2", "3", "4", "5", "6", "7", "8", "9">>

IsDigit(c) == \E i \in 1..10 : Digits[i] = c

DigitVal(c) == (CHOOSE i \in 1..10 : Digits[i] = c) - 1

\* int(f) of a string of one or two digits
IntOf(f) == IF Len(f) = 1 THEN DigitVal(f[1]) ELSE 10 * DigitVal(f[1]) + DigitVal(f[2])

\* one field of the format: one or two digits, the number at most max
\* (%H is 2[0-3]|[0-1]\d|\d and %M is [0-5]\d|\d in _strptime)
TimeField(f, max) ==
    /\ Len(f) \in {1, 2}
    /\ \A i \in 1..Len(f) : IsDigit(f[i])
    /\ IntOf(f) <= max

\* datetime.strptime(s, "%H:%M") returns: an hour field, a colon, a minute
\* field and nothing else; it raises ValueError otherwise
StrptimeParses(s) ==
    \E i \in 1..Len(s) :
        /\ s[i] = ":"
        /\ TimeField(SubSeq(s, 1, i - 1), 23)
        /\ TimeField(SubSeq(s, i + 1, Len(s)), 59)

\* hour, minute = map(int, s.split(":")) for a string strptime accepted
HourMinute(s) ==
    LET i == CHOOSE j \in 1..Len(s) : s[j] = ":"
    IN <<IntOf(SubSeq(s, 1, i - 1)), IntOf(SubSeq(s, i + 1, Len(s)))>>

\* the strings given as a schedule time
T0800 == <<"0", "8", ":", "0", "0">>

T80 == <<"8", ":", "0">>

T2359 == <<"2", "3", ":", "5", "9">>

T2400 == <<"2", "4", ":", "0", "0">>

T0860 == <<"0", "8", ":", "6", "0">>

TNoColon == <<"0", "8", "0", "0">>

TSeconds == <<"0", "8", ":", "0", "0", ":", "0", "0">>

\* "" (and, for update_schedule, None: both are falsy)
NoTime == <<>>

TimeInputs == {T0800, T80, T2359, T2400, T0860, TNoColon, TSeconds, NoTime}

\* the strings of TimeInputs that strptime parses, computed once
Parsed == {s \in TimeInputs : StrptimeParses(s)}

\* datetime.strptime(s, "%H:%M") on a string of TimeInputs does not raise
Strptime(s) == s \in Parsed

\* the (hour, minute) the clock passes through in one day
CfMinutes == <<<<8, 0>>, <<23, 59>>>>

\* the functions set_callback is given
Callbacks == {1, 2}

\* Scheduler.__init__, then SchedulerManager.__init__ on the default AppConfig
CfgInit ==
    /\ cf_schedule_time = T0800
    /\ cf_callback = 1
    /\ cf_running = FALSE
    /\ cf_config = [schedule_time |-> T0800, schedule_enabled |-> FALSE]
    /\ cf_out = "ok"
    /\ cf_pc = "none"
    /\ cf_cmp = NoTime
    /\ cf_last_run_date = 0
    /\ cf_clock = [date |-> 1, slot |-> 1]
    /\ cf_log = <<>>

\* an update_schedule that saves the time before the Scheduler validates it
SavedBeforeValidation(cfg, s) == [cfg EXCEPT !.schedule_time = s]

\* the AppConfig after an update_schedule whose set_schedule_time raised: the
\* exception leaves update_schedule before the first update_config
RejectedConfig(cfg, s) == cfg

\* Scheduler.set_schedule_time(s), called on the Scheduler itself
CfSetScheduleTime(s) ==
    /\ IF Strptime(s)
         THEN cf_schedule_time' = s /\ cf_out' = "ok"
         ELSE cf_out' = "ValueError" /\ UNCHANGED cf_schedule_time
    /\ UNCHANGED <<cf_callback, cf_running, cf_config, cf_pc, cf_cmp, cf_last_run_date,
                   cf_clock, cf_log>>
    /\ CfgFrame

\* Scheduler.set_callback(c)
CfSetCallback(c) ==
    /\ cf_callback' = c
    /\ cf_out' = "ok"
    /\ UNCHANGED <<cf_schedule_time, cf_running, cf_config, cf_pc, cf_cmp,
                   cf_last_run_date, cf_clock, cf_log>>
    /\ CfgFrame

\* SchedulerManager.update_schedule(enabled, s): the time if one is given,
\* then start (unless running) or stop, then the enabled flag; each
\* update_config saves
CfUpdateSchedule(enabled, s) ==
    IF s # NoTime /\ ~Strptime(s)
      THEN /\ cf_out' = "ValueError"
           /\ cf_config' = RejectedConfig(cf_config, s)
           /\ UNCHANGED <<cf_schedule_time, cf_callback, cf_running, cf_pc, cf_cmp,
                          cf_last_run_date, cf_clock, cf_log>>
           /\ CfgFrame
      ELSE /\ cf_out' = "ok"
           /\ cf_schedule_time' = IF s # NoTime THEN s ELSE cf_schedule_time
           /\ cf_config' = [schedule_time |-> IF s # NoTime THEN s
                                               ELSE cf_config.schedule_time,
                            schedule_enabled |-> enabled]
           /\ cf_running' = enabled
           /\ cf_pc' = IF enabled /\ ~cf_running /\ cf_pc = "none" THEN "while" ELSE cf_pc
           /\ cf_log' = IF enabled /\ ~cf_running THEN <<>> ELSE cf_log
           /\ UNCHANGED <<cf_callback, cf_cmp, cf_last_run_date, cf_clock>>
           /\ CfgFrame

\* a loop that compares the clock with the time of the saved AppConfig
ConfigTime == cf_config.schedule_time

\* the time a tick compares the clock with: self._schedule_time, read in
\* every iteration
LoopTime == cf_schedule_time

\* _run_loop, one iteration up to the callback: while self._running; the hour
\* and minute test against the time read now; _should_run_today; the marker
\* write; else the sleep
CfTick ==
    /\ cf_pc = "while"
    /\ IF ~cf_running
         THEN cf_pc' = "none" /\ UNCHANGED <<cf_cmp, cf_last_run_date>>
         ELSE IF /\ HourMinute(LoopTime) = CfMinutes[cf_clock.slot]
                 /\ cf_last_run_date # cf_clock.date
           THEN /\ cf_last_run_date' = cf_clock.date
                /\ cf_cmp' = LoopTime
                /\ cf_pc' = "fire"
           ELSE UNCHANGED <<cf_pc, cf_cmp, cf_last_run_date>>
    /\ UNCHANGED <<cf_schedule_time, cf_callback, cf_running, cf_config, cf_out, cf_clock,
                   cf_log>>
    /\ CfgFrame

\* if self._callback: self._callback(), the function read at the call; then
\* the sleep
CfFire ==
    /\ cf_pc = "fire"
    /\ cf_log' = Append(IF Len(cf_log) < 2 THEN cf_log ELSE Tail(cf_log),
                        [time |-> cf_cmp, cb |-> cf_callback])
    /\ cf_cmp' = NoTime
    /\ cf_pc' = "while"
    /\ UNCHANGED <<cf_schedule_time, cf_callback, cf_running, cf_config, cf_out,
                   cf_last_run_date, cf_clock>>
    /\ CfgFrame

\* the clock moves to the next minute of CfMinutes, past midnight to the next date
CfAdvance ==
    /\ \/ /\ cf_clock.slot < Len(CfMinutes)
          /\ cf_clock' = [cf_clock EXCEPT !.slot = @ + 1]
       \/ /\ cf_clock.slot = Len(CfMinutes) /\ cf_clock.date < MaxDate
          /\ cf_clock' = [date |-> cf_clock.date + 1, slot |-> 1]
    /\ UNCHANGED <<cf_schedule_time, cf_callback, cf_running, cf_config, cf_out, cf_pc,
                   cf_cmp, cf_last_run_date, cf_log>>
    /\ CfgFrame

CfgNext ==
    \/ \E s \in TimeInputs : CfSetScheduleTime(s)
    \/ \E c \in Callbacks : CfSetCallback(c)
    \/ \E enabled \in BOOLEAN, s \in TimeInputs : CfUpdateSchedule(enabled, s)
    \/ CfTick
    \/ CfFire
    \/ CfAdvance

\* ---------------- the credential string (checkin.py 315-342, ui/app.py 622-636)
\* login's and _wait_for_login's cookie as the string it is: the f-strings
\* of cookie_parts joined with "; ".
CredFrame == UNCHANGED <<schedVars, claimVars, runVars, loginVars, lockVars, cfgVars, dsVars, tickVars, storeVars>>

\* the characters of the keys of cookie_parts
KeyChars ==
    ("stuid" :> <<"s", "t", "u", "i", "d">>) @@
    ("ltuid" :> <<"l", "t", "u", "i", "d">>) @@
    ("ltuid_v2" :> <<"l", "t", "u", "i", "d", "_", "v", "2">>) @@
    ("account_id" :> <<"a", "c", "c", "o", "u", "n", "t", "_", "i", "d">>) @@
    ("account_id_v2" :> <<"a", "c", "c", "o", "u", "n", "t", "_", "i", "d", "_", "v", "2">>) @@
    ("stoken" :> <<"s", "t", "o", "k", "e", "n">>) @@
    ("mid" :> <<"m", "i", "d">>) @@
    ("ltmid_v2" :> <<"l", "t", "m", "i", "d", "_", "v", "2">>) @@
    ("cookie_token" :> <<"c", "o", "o", "k", "i", "e", "_", "t", "o", "k", "e", "n">>) @@
    ("cookie_token_v2" :> <<"c", "o", "o", "k", "i", "e", "_", "t", "o", "k", "e", "n", "_", "v", "2">>) @@
    ("account_mid_v2" :> <<"a", "c", "c", "o", "u", "n", "t", "_", "m", "i", "d", "_", "v", "2">>) @@
    ("ltoken" :> <<"l", "t", "o", "k", "e", "n">>) @@
    ("ltoken_v2" :> <<"l", "t", "o", "k", "e", "n", "_", "v", "2">>)

\* the values the chain hands to the f-strings and the characters str() gives
\* them: str(None) is "None"
ValueChars ==
    ("1" :> <<"1">>) @@
    ("12" :> <<"1", "2">>) @@
    ("a" :> <<"a">>) @@
    ("ab" :> <<"a", "b">>) @@
    ("a=" :> <<"a", "=">>) @@
    ("None" :> <<"N", "o", "n", "e">>)

\* uid: get_stoken does int(uid) on it
UidValues == {"1", "12"}

\* stoken is truthy where cookie_parts is built; mid is whatever the answer
\* held, None if it held none
StokenValues == {"a", "ab", "a="}

MidValues == {"a", "ab", "a=", None}

\* cookie_token and ltoken: None where the exchange gave none
OptionalValues == {"a", None}

\* no credential is being built
CredIdle ==
    /\ cr_uid = "1"
    /\ cr_pair = <<>>
    /\ cr_cookie_token = None
    /\ cr_ltoken = None
    /\ cr_cookie = <<>>

\* the chain has run twice on one account up to cookie_parts, with these
\* values
CredInit ==
    /\ cr_uid \in UidValues
    /\ cr_pair \in [1..2 -> [stoken : StokenValues, mid : MidValues]]
    /\ cr_cookie_token \in OptionalValues
    /\ cr_ltoken \in OptionalValues
    /\ cr_cookie = <<<<>>, <<>>>>

\* f"{key}={value}"
FString(part) == KeyChars[part[1]] \o <<"=">> \o ValueChars[part[2]]

RECURSIVE JoinBare(_, _)
\* a join that puts nothing between the parts
JoinBare(parts, i) ==
    IF i > Len(parts) THEN <<>> ELSE FString(parts[i]) \o JoinBare(parts, i + 1)

RECURSIVE JoinParts(_, _)
\* "; ".join(cookie_parts), from the i-th part on
JoinParts(parts, i) ==
    IF i > Len(parts) THEN <<>>
    ELSE IF i = Len(parts) THEN FString(parts[i])
    ELSE FString(parts[i]) \o <<";", " ">> \o JoinParts(parts, i + 1)

\* cookie = "; ".join(cookie_parts) for the k-th pair
CrBuild(k) ==
    /\ cr_cookie # <<>>
    /\ cr_cookie[k] = <<>>
    /\ cr_cookie' = [cr_cookie EXCEPT ![k] =
                       JoinParts(CookieParts(cr_uid, cr_pair[k].stoken, cr_pair[k].mid,
                                             cr_cookie_token, cr_ltoken), 1)]
    /\ UNCHANGED <<cr_uid, cr_pair, cr_cookie_token, cr_ltoken>>
    /\ CredFrame

CredNext == \E k \in 1..2 : CrBuild(k)

\* ---------------------------------------- DS signatures (checkin.py 60-92)
\* get_ds and get_ds2: a text is put together from a salt, the clock's
\* seconds and a random string, its MD5 is taken, and "t,r,digest" returned.
\* A text is kept as the list of the pieces the f-string puts in a row.
DsFrame == UNCHANGED <<schedVars, claimVars, runVars, loginVars, lockVars, cfgVars, credVars, tickVars, storeVars>>

\* salt = ... if web else ...
SaltV1(web) == IF web THEN "G1ktdwFL4IyGkHuuWSmz0wUe9Db9scyK"
               ELSE "idMMaGYmVgPzh3wxmWudUXKUPGidO7GM"

\* get_ds2's salt
SaltV2 == "t0qEgfub6cvueAPgR5m9aQWWVciEer7v"

\* str(get_timestamp()) at two moments
Timestamps == {"1700000000", "1700000001"}

\* random_string(6): six characters of a-z0-9
NoncesV1 == {"abc123", "zzz999"}

\* str(random.randint(100001, 200000))
NoncesV2 == {"100001", "200000"}

\* the query strings and bodies get_ds2 is called with
Queries == {"", "game_biz=hk4e_cn"}

Bodies == {"", "{}"}

\* hashlib.md5(text.encode()).hexdigest(): a digest that stands for the text
\* it was taken of, and for nothing else
md5(text) == [md5 |-> text]

\* a get_ds2 text with the query put before the body
TextV2QueryFirst(salt, t, r, query, body) ==
    <<"salt=", salt, "&t=", t, "&r=", r, "&q=", query, "&b=", body>>

\* f"salt={salt}&t={t}&r={r}"
TextV1(salt, t, r) == <<"salt=", salt, "&t=", t, "&r=", r>>

\* f"salt={salt}&t={t}&r={r}&b={body}&q={query}"
TextV2(salt, t, r, query, body) ==
    <<"salt=", salt, "&t=", t, "&r=", r, "&b=", body, "&q=", query>>

\* f"{t},{r},{c}"
Wire(t, r, c) == <<t, ",", r, ",", c>>

DsInit == ds_log = <<>>

\* the log keeps the last two evaluations
Logged(e) == IF Len(ds_log) < 2 THEN Append(ds_log, e) ELSE <<ds_log[2], e>>

\* get_ds(web), the clock giving t and the random source r
get_ds(web, t, r) ==
    /\ ds_log' = Logged([v |-> 1, salt |-> SaltV1(web), t |-> t, r |-> r,
                         query |-> "", body |-> "",
                         out |-> Wire(t, r, md5(TextV1(SaltV1(web), t, r)))])
    /\ DsFrame

\* get_ds2(query, body), the clock giving t and the random source r
get_ds2(query, body, t, r) ==
    /\ ds_log' = Logged([v |-> 2, salt |-> SaltV2, t |-> t, r |-> r,
                         query |-> query, body |-> body,
                         out |-> Wire(t, r, md5(TextV2(SaltV2, t, r, query, body)))])
    /\ DsFrame

DsNext ==
    \/ \E web \in BOOLEAN, t \in Timestamps, r \in NoncesV1 : get_ds(web, t, r)
    \/ \E query \in Queries, body \in Bodies, t \in Timestamps, r \in NoncesV2 :
          get_ds2(query, body, t, r)

\* ------------------- the timer loop minute by minute (scheduler.py 143-191)
\* The Scheduler of a SchedulerManager (its callback is set), with the loop's
\* period against the clock: a loop thread sleeps 30 seconds between two
\* iterations, so every sleeping loop thread passes its while test at least
\* once in each minute.
TickFrame == UNCHANGED <<schedVars, claimVars, runVars, loginVars, lockVars, cfgVars,
                         credVars, dsVars, storeVars>>

\* a loop thread that does not exist
TkNone == [pc |-> "none", now |-> 0, ticked |-> FALSE]

TickInit ==
    /\ tk_running = FALSE
    /\ tk_time = "08:00"
    /\ tk_marker = 0
    /\ tk_clock = [date |-> 1, slot |-> 1]
    /\ tk_loop = [t \in LoopIds |-> TkNone]
    /\ tk_fired = {}
    /\ tk_minute = [steady |-> FALSE, due |-> TRUE]

TkFree == {t \in LoopIds : tk_loop[t].pc = "none"}

\* Scheduler.start: a new loop thread unless the flag is set
TkStart ==
    /\ ~tk_running
    /\ TkFree # {}
    /\ tk_running' = TRUE
    /\ tk_loop' = [tk_loop EXCEPT ![CHOOSE t \in TkFree : \A u \in TkFree : t <= u] =
                     [pc |-> "sleep", now |-> 0, ticked |-> FALSE]]
    /\ tk_minute' = [tk_minute EXCEPT !.steady = FALSE]
    /\ UNCHANGED <<tk_time, tk_marker, tk_clock, tk_fired>>
    /\ TickFrame

\* Scheduler.stop: the flag is cleared; the join returns when the thread has
\* ended or after 5 seconds
TkStop ==
    /\ tk_running
    /\ tk_running' = FALSE
    /\ tk_minute' = [tk_minute EXCEPT !.steady = FALSE]
    /\ UNCHANGED <<tk_time, tk_marker, tk_clock, tk_loop, tk_fired>>
    /\ TickFrame

\* Scheduler.set_schedule_time with a valid time
TkSetTime(s) ==
    /\ s # tk_time
    /\ tk_time' = s
    /\ tk_minute' = [tk_minute EXCEPT !.steady = FALSE]
    /\ UNCHANGED <<tk_running, tk_marker, tk_clock, tk_loop, tk_fired>>
    /\ TickFrame

\* now.hour == hour and now.minute == minute
AtScheduleTime(now, s) == DayTimes[now.slot] = s

\* the thread starts or its time.sleep(30) ends: while self._running;
\* now = datetime.now(); the hour and minute test
TkWake(t) ==
    /\ tk_loop[t].pc = "sleep"
    /\ tk_loop' = [tk_loop EXCEPT ![t] =
                     IF ~tk_running THEN TkNone
                     ELSE IF AtScheduleTime(tk_clock, tk_time)
                       THEN [pc |-> "gate", now |-> tk_clock.date, ticked |-> TRUE]
                       ELSE [pc |-> "sleep", now |-> 0, ticked |-> TRUE]]
    /\ UNCHANGED <<tk_running, tk_time, tk_marker, tk_clock, tk_fired, tk_minute>>
    /\ TickFrame

\* a test that lets the timer fire only while it has never fired
NeverRanBefore == tk_marker = 0

\* _should_run_today: self._last_run_date != today, on the clock as it is
\* when the test is made
TkShouldRun == tk_marker # tk_clock.date

\* self._should_run_today() on the clock as it is now; the marker write with
\* the date of now; if self._callback: self._callback()
TkGate(t) ==
    /\ tk_loop[t].pc = "gate"
    /\ IF TkShouldRun
         THEN /\ tk_marker' = tk_loop[t].now
              /\ tk_fired' = tk_fired \cup {tk_loop[t].now}
              /\ tk_loop' = [tk_loop EXCEPT ![t].pc = "callback", ![t].now = 0]
         ELSE /\ tk_loop' = [tk_loop EXCEPT ![t].pc = "sleep", ![t].now = 0]
              /\ UNCHANGED <<tk_marker, tk_fired>>
    /\ UNCHANGED <<tk_running, tk_time, tk_clock, tk_minute>>
    /\ TickFrame

\* the callback returns or raises; the thread goes to its sleep
TkCallbackEnd(t) ==
    /\ tk_loop[t].pc = "callback"
    /\ tk_loop' = [tk_loop EXCEPT ![t].pc = "sleep"]
    /\ UNCHANGED <<tk_running, tk_time, tk_marker, tk_clock, tk_fired, tk_minute>>
    /\ TickFrame

\* the minute ends.  Every loop thread in its sleep has passed its while test
\* in the minute (30 seconds against 60); a tick is over within the minute
\* it began in, but for the one a midnight falls into, between the read of
\* now and the read of _should_run_today.
TkAdvance ==
    /\ \A t \in LoopIds : tk_loop[t].pc = "sleep" => tk_loop[t].ticked
    /\ \/ /\ tk_clock.slot < Len(DayTimes)
          /\ \A t \in LoopIds : tk_loop[t].pc # "gate"
          /\ tk_clock' = [tk_clock EXCEPT !.slot = @ + 1]
       \/ /\ tk_clock.slot = Len(DayTimes) /\ tk_clock.date < MaxDate
          /\ tk_clock' = [date |-> tk_clock.date + 1, slot |-> 1]
    /\ tk_loop' = [t \in LoopIds |-> [tk_loop[t] EXCEPT !.ticked = FALSE]]
    /\ tk_minute' = [steady |-> tk_running /\ \E t \in LoopIds : tk_loop[t].pc = "sleep",
                     due |-> tk_clock'.date \notin tk_fired]
    /\ UNCHANGED <<tk_running, tk_time, tk_marker, tk_fired>>
    /\ TickFrame

TickNext ==
    \/ TkStart
    \/ TkStop
    \/ \E s \in Times : TkSetTime(s)
    \/ \E t \in LoopIds : TkWake(t)
    \/ \E t \in LoopIds : TkGate(t)
    \/ \E t \in LoopIds : TkCallbackEnd(t)
    \/ TkAdvance

\* ----------------------- the account store (account_manager.py 60-179)
\* AccountManager's accounts and its current-account id, call by call. The
\* dict of accounts is kept as the list of its keys in insertion order; the
\* ids are the uids the login hands to add_account, which are never empty
\* (ui/app.py 613, 650-651).
StoreFrame == UNCHANGED <<schedVars, claimVars, runVars, loginVars, lockVars, cfgVars,
                          credVars, dsVars, tickVars>>

StoreIds == {"10001", "10002", "10003", "10004"}

\* the keys of the dict
AccountKeys(d) == {d[i] : i \in DOMAIN d}

\* del self.accounts[account_id]
Del(d, id) == SelectSeq(d, LAMBDA k : k # id)

\* self.accounts[account_id] = account: a new key goes last, a key the dict
\* has keeps its place
SetItem(d, id) == IF id \in AccountKeys(d) THEN d ELSE Append(d, id)

\* a remove_account that leaves no current account
NoCurrent(d) == ""

\* list(self.accounts.keys())[0] if self.accounts, else ""
NextCurrent(d) == IF d # <<>> THEN d[1] ELSE ""

\* AccountManager() with no data files: no account, AppConfig's default id
StoreInit ==
    /\ st_accounts = <<>>
    /\ st_current = ""
    /\ st_saved = FALSE
    /\ st_call = [op |-> "none", id |-> "", result |-> "none"]

\* save(): both files are written, or a write fails and save prints it
save == st_saved' \in BOOLEAN

add_account(id) ==
    /\ st_accounts' = SetItem(st_accounts, id)
    /\ st_current' = IF st_current = "" THEN id ELSE st_current
    /\ save
    /\ st_call' = [op |-> "add_account", id |-> id, result |-> "account"]
    /\ StoreFrame

remove_account(id) ==
    /\ IF id \in AccountKeys(st_accounts)
       THEN /\ st_accounts' = Del(st_accounts, id)
            /\ st_current' = IF st_current = id
                             THEN NextCurrent(st_accounts')
                             ELSE st_current
            /\ save
            /\ st_call' = [op |-> "remove_account", id |-> id, result |-> "True"]
       ELSE /\ UNCHANGED <<st_accounts, st_current, st_saved>>
            /\ st_call' = [op |-> "remove_account", id |-> id, result |-> "False"]
    /\ StoreFrame

set_current_account(id) ==
    /\ IF id \in AccountKeys(st_accounts)
       THEN /\ st_current' = id
            /\ save
            /\ UNCHANGED st_accounts
            /\ st_call' = [op |-> "set_current_account", id |-> id, result |-> "True"]
       ELSE /\ UNCHANGED <<st_accounts, st_current, st_saved>>
            /\ st_call' = [op |-> "set_current_account", id |-> id, result |-> "False"]
    /\ StoreFrame

StoreNext ==
    \/ \E id \in StoreIds : add_account(id)
    \/ \E id \in StoreIds : remove_account(id)
    \/ \E id \in StoreIds : set_current_account(id)

\* ------------------------------------------------------- account run claims
\* worker w's run of _do_scheduled_sign ends in this step
RunEnds(w) ==
    /\ worker[w].kind \in {"scheduled", "run_now"}
    /\ worker[w].pc # "idle"
    /\ worker'[w].pc = "idle"

\* C7: a run of _do_scheduled_sign ends only from the last of the active
\* accounts it took: whatever is raised while an account is processed, the
\* run goes on to the account after it.
C7_EveryAccountProcessed ==
    [][\A w \in Workers : RunEnds(w) => Len(worker[w].todo) = 1]_vars

\* a scheduled run that caught an exception on an earlier account is signing
\* a later one
C7_Witness ==
    \E w \in Workers :
        /\ worker[w].kind = "scheduled" /\ worker[w].caught
        /\ worker[w].pc = "posting"

\* C9: no two claim submissions for the same account are in flight at once.
C9_NoConcurrentSubmission ==
    \A v, w \in Workers :
        (v # w /\ worker[v].pc = "posting" /\ worker[w].pc = "posting")
            => Account(v) # Account(w)

\* C10: no two update_last_sign_time calls for the same account overlap: one
\* is never between its field write and the end of its save while another is.
C10_UpdatesSerialized ==
    \A v, w \in Workers :
        (v # w /\ worker[v].pc = "saving" /\ worker[w].pc = "saving")
            => Account(v) # Account(w)

\* worker w is in a run of _do_scheduled_sign before and after the step
InScheduledRun(w) ==
    /\ worker[w].kind \in {"scheduled", "run_now"}
    /\ worker'[w].kind = worker[w].kind

\* worker w comes to position p in this step, on the account it was at
ComesTo(w, p) ==
    /\ InScheduledRun(w)
    /\ worker'[w].pc = p /\ worker[w].pc # p

\* worker w leaves the account it is at in this step: the next account, or
\* the end of the run
LeavesAccount(w) ==
    /\ worker[w].kind \in {"scheduled", "run_now"}
    /\ worker[w].pc # "idle"
    /\ worker'[w].pc = "idle" \/ worker'[w].todo # worker[w].todo

\* C39: in a run of _do_scheduled_sign an account's last-sign time is written
\* and sign_callback is called for it exactly when sign_all returned its
\* results for it, whatever the results say: the write follows the return of
\* the last game, the callback follows the write, and an account is left
\* either after its callback or by an exception of sign_all, with neither.
C39_UpdateAndCallbackIffReturned ==
    [][\A w \in Workers : worker'[w] # worker[w] =>
          /\ ComesTo(w, "update") =>
                /\ worker[w].pc \in {"sign", "posting"}
                /\ worker[w].gi = Len(EnabledGames(Account(w)))
                /\ worker'[w].todo = worker[w].todo
          /\ ComesTo(w, "saving") =>
                /\ worker[w].pc = "update"
                /\ Account(w) \in unsaved'
                /\ worker'[w].todo = worker[w].todo
          /\ ComesTo(w, "callback") =>
                /\ worker[w].pc = "saving"
                /\ worker'[w].todo = worker[w].todo
          /\ LeavesAccount(w) => worker[w].pc \in {"sign", "posting", "callback"}]_vars

\* a scheduled run is at the callback of its second account after an
\* exception on its first
C39_Witness ==
    \E w \in Workers :
        /\ worker[w].kind = "scheduled" /\ worker[w].caught
        /\ worker[w].pc = "callback" /\ Len(worker[w].todo) = 1

\* ------------------------------------------------------- Scheduler claims
LiveLoops == {t \in LoopIds : Alive(t)}

\* C1: the timer invokes the callback at most once per calendar date: it never
\* fires for a date it has already fired for.
C1_OncePerDate == ~refired

\* C2: at every moment at most one timer-loop thread is alive.
C2_OneLoopThread == Cardinality(LiveLoops) <= 1

\* C3: once stop() has returned (and until the next start()) the loop thread
\* it stopped has exited.
C3_StopJoinsThread == stopped => ~ThreadAlive

\* C4: while a callback started by the timer runs, the loop thread is not held
\* in it: the loop has gone on to its sleep or its next tick, where it can see
\* a stop request, without waiting for the callback to complete.
C4_CallbackAsync == \A t \in LoopIds : loop[t].cb = "running" => loop[t].pc # "callback"

\* C18: an exception raised by the callback during a scheduled run is caught
\* and does not end the timer loop: when the callback ends, by a return or by
\* an exception, its loop thread is alive in the sleep of the loop with the
\* running flag and the marker as they were, and a thread that caught an
\* exception goes to the date gate like any other when it wakes in the
\* configured minute, so that it fires again in that minute of the next date.
C18_ExceptionKeepsLoop ==
    [][\A t \in LoopIds :
         /\ (loop[t].cb = "running" /\ loop'[t].cb # "running")
              => /\ loop'[t].pc = "wait"
                 /\ running' = running
                 /\ last_run_date' = last_run_date
         /\ (loop[t].cb = "raised" /\ loop'[t] # loop[t] /\ running
                /\ NowTime = schedule_time)
              => /\ loop'[t].pc = "gate"
                 /\ loop'[t].nowDate = clock.date]_vars

\* the thread whose callback raised on one date is asleep in the loop when the
\* configured minute of the next date arrives, the engine still running
C18_Witness ==
    \E t \in LoopIds :
        /\ loop[t].cb = "raised" /\ loop[t].pc = "wait"
        /\ running /\ thread = t
        /\ last_run_date # 0 /\ clock.date = last_run_date + 1
        /\ NowTime = schedule_time

\* C19: run_now starts the callback whatever the time, the marker and the
\* running flag are, and leaves the marker, the running flag and the loop
\* threads as they were: the loop's gate still passes on that date.
C19_RunNowLeavesMarker ==
    [][manual' > manual
         => /\ last_run_date' = last_run_date
            /\ fired' = fired
            /\ running' = running
            /\ loop' = loop]_vars

\* a manual run started on the first date is still in progress, the marker is
\* still None, and a loop thread has passed the gate for that same date
C19_Witness ==
    /\ manual > 0
    /\ clock.date = 1
    /\ last_run_date = 0
    /\ \E t \in LoopIds : loop[t].pc = "record" /\ loop[t].nowDate = 1

\* C20: every read and every write of the fired-date marker and of the running
\* flag, by a loop thread or by the external caller, is made by an actor that
\* holds the Scheduler's lock.
C20_AccessesUnderLock ==
    \A a \in Actors : (AtRunning(a) \/ AtMarker(a)) => lock = a

\* the minute that is ending is the schedule time's, of a date that had not
\* fired when it began, and the engine was running with that schedule time
\* from its beginning to its end
DueMinuteEnds ==
    /\ tk_clock' # tk_clock
    /\ tk_minute.steady /\ tk_minute.due
    /\ tk_running /\ AtScheduleTime(tk_clock, tk_time)

\* C35: a running engine that ticks through the schedule time's minute of a
\* date it has not fired for invokes the callback for that date in that
\* minute: when the minute ends the date has fired, or (at midnight) the
\* tick that read the date is at its _should_run_today.
C35_NoDateSkipped ==
    [][DueMinuteEnds =>
          \/ tk_clock.date \in tk_fired
          \/ \E t \in LoopIds : tk_loop[t].pc = "gate" /\ tk_loop[t].now = tk_clock.date]_vars

\* the engine has fired for two dates in a row, the second after its
\* schedule time was moved to the last minute of the day
C35_Witness ==
    /\ tk_fired = {1, 2} /\ tk_running /\ tk_time = "23:59"
    /\ tk_clock = [date |-> 2, slot |-> 2] /\ tk_minute.steady /\ tk_minute.due

\* C36: after stop has returned and until the next start, the timer loop
\* begins no firing: no loop thread writes the marker and calls the callback,
\* wherever a tick was when stop was called.
C36_NoFiringAfterStop ==
    [][stopped => \A t \in LoopIds : loop[t].pc = "record" => loop'[t].pc = "record"]_vars

\* the strings of TimeInputs that are no time of day in HH:MM
BadTimes == {T2400, T0860, TNoColon, TSeconds}

\* C21: a schedule time of invalid format, given to set_schedule_time or to
\* update_schedule, is rejected with ValueError and nothing is mutated: the
\* Scheduler's time, its running flag and loop thread, and the saved AppConfig
\* are what they were.
C21_InvalidTimeRejected ==
    [][\A s \in BadTimes :
         (CfSetScheduleTime(s) \/ \E enabled \in BOOLEAN : CfUpdateSchedule(enabled, s))
           => /\ cf_out' = "ValueError"
              /\ cf_schedule_time' = cf_schedule_time
              /\ cf_running' = cf_running
              /\ cf_pc' = cf_pc
              /\ cf_config' = cf_config]_vars

\* an invalid time was just rejected on an engine that is running with a time
\* and a saved configuration other than the initial ones
C21_Witness ==
    /\ cf_out = "ValueError"
    /\ cf_running /\ cf_pc = "while"
    /\ cf_schedule_time = T2359
    /\ cf_config = [schedule_time |-> T2359, schedule_enabled |-> TRUE]

\* C22: a change of the time or of the callback while the engine is running
\* restarts nothing and takes effect on the next tick: set_schedule_time and
\* set_callback leave the running flag and the loop thread alone, every tick
\* that passes the time test compared the clock with the time configured at
\* that tick, and every firing invokes the callback registered at the call.
C22_ChangeTakesEffectNextTick ==
    [][/\ (cf_running /\ (\E c \in Callbacks : CfSetCallback(c)
                          \/ \E s \in TimeInputs : CfSetScheduleTime(s)))
            => cf_running' /\ cf_pc' = cf_pc
       /\ (cf_pc = "while" /\ cf_pc' = "fire")
            => /\ cf_cmp' = cf_schedule_time
               /\ HourMinute(cf_schedule_time) = CfMinutes[cf_clock.slot]
       /\ (cf_pc = "fire" /\ cf_pc' = "while")
            => /\ cf_log' # <<>>
               /\ cf_log'[Len(cf_log')] = [time |-> cf_cmp, cb |-> cf_callback]]_vars

\* one run of the engine fired twice without a restart between: first at the
\* old time with the old callback, then at the new time with the new callback
C22_Witness ==
    /\ Len(cf_log) = 2
    /\ HourMinute(cf_log[1].time) # HourMinute(cf_log[2].time)
    /\ cf_log[1].cb # cf_log[2].cb

\* ------------------------------------------------------- sign_all claims
\* the games of the list that sign_all signs
KnownGames == {games[i] : i \in DOMAIN games} \cap GAMES

Ended == spc \in {"returned", "raised"}

\* C5: no failure of one game's sign, of whatever kind, aborts sign_all: it
\* never ends by an exception, and the map it returns has an entry for every
\* game of the list.
C5_FailureIsolated ==
    /\ spc # "raised"
    /\ spc = "returned" => DOMAIN results = KnownGames

\* a sign_all of three games whose first game succeeded, whose second game was
\* answered with a non-zero retcode, and whose third game, if reached,
\* succeeded
C6_Scenario ==
    /\ Ended
    /\ Len(games) = 3 /\ KnownGames = {games[1], games[2], games[3]}
    /\ Len(causes) >= 2 /\ causes[1].how = "ok" /\ causes[2].how = "app"
    /\ Len(causes) = 3 => causes[3].how = "ok"

\* C6: three games, the second failing with an application error: sign_all
\* returns a map with all three games, the first and third marked success and
\* the second marked failure.
C6_AppErrorIsolated ==
    C6_Scenario =>
        /\ spc = "returned"
        /\ DOMAIN results = {games[1], games[2], games[3]}
        /\ results[games[1]].success
        /\ ~results[games[2]].success
        /\ results[games[3]].success

C6_Witness == C6_Scenario /\ spc = "returned" /\ Len(causes) = 3

\* C8: a sign whose claim-info reports is_sign returns at once: success, the
\* message carrying the reported total_sign_day, the first role's snapshot, and
\* no claim submission sent; the same on every call.
C8_AlreadyClaimedIdempotent ==
    info.is_sign =>
        /\ spc = "sleep"
        /\ posts = 0
        /\ results[games[ci]] = Result(TRUE, "already", info.total, role_info)

\* the second sign_all call on the service finds a game already claimed
C8_Witness == ncalls = 2 /\ info.is_sign /\ spc = "sleep" /\ info.total = MaxDays

\* a sign_all of two games: the first game's claim-info reported it claimed
\* today with total_sign_day 5; the second game's reported it not claimed, its
\* submission was accepted and the awards list has an entry at index 6
C23_Scenario ==
    /\ Ended
    /\ Len(games) = 2 /\ games[1] # games[2] /\ KnownGames = {games[1], games[2]}
    /\ Len(causes) = 2
    /\ causes[1] = Fact("ok", FALSE, TRUE, 5, FALSE)
    /\ causes[2] = Fact("ok", FALSE, FALSE, 5, TRUE)

\* C23: end to end, sign_all of [gameA, gameB] with gameA already claimed at
\* total 5 and gameB claimed now with a reward at index 6 returns exactly
\* gameA: success with the message of day 5, gameB: success with the message
\* of the reward at index 6 (its name and count).
C23_EndToEnd ==
    C23_Scenario =>
        /\ spc = "returned"
        /\ DOMAIN results = {games[1], games[2]}
        /\ results[games[1]].success
        /\ results[games[1]].message = [tag |-> "already", n |-> 5]
        /\ results[games[2]].success
        /\ results[games[2]].message = [tag |-> "reward", n |-> 6]

C23_Witness == C23_Scenario /\ spc = "returned" /\ ncalls = 1

\* the i-th game of the list was handled and sign_all stored a result for it
Stored(i) == i \in 1..Len(causes) /\ causes[i].how # "skipped" /\ games[i] \in DOMAIN results

\* C25: a failed result carries the server's message whenever the answer
\* that made it fail carried one, the role lookup answered with a non-zero
\* retcode included; a fallback text stands only where the answer had none.
C25_FailureCarriesServerMessage ==
    \A i \in 1..Len(causes) :
        (Stored(i) /\ ~results[games[i]].success /\ causes[i].msg)
            => results[games[i]].message.tag = "server"

\* C26: an answer of an unexpected JSON shape (a body that is not JSON, or
\* retcode 0 with "data": null) never raises out of sign_all: the game it
\* belongs to gets a failure result with a fallback message.
C26_MalformedIsFailureResult ==
    \A i \in 1..Len(causes) :
        causes[i].how = "malformed"
            => /\ spc # "raised"
               /\ games[i] \in DOMAIN results
               /\ ~results[games[i]].success
               /\ results[games[i]].message.tag \in {"info_fallback", "sign_fallback"}

\* the role lookup of the game at hand has just been answered with an empty
\* list
EmptyRolesAnswered ==
    /\ spc = "roles"
    /\ Len(causes') = Len(causes) + 1
    /\ causes'[Len(causes')].how = "norole"

\* C28: when the role lookup gives an empty list, sign fails with the
\* no-role message and no role snapshot, and returns at once: it sends
\* neither the claim-info query nor the submission.
C28_NoRoleFailsAtOnce ==
    [][EmptyRolesAnswered
          => /\ spc' = "sleep"
             /\ games[ci] \in DOMAIN results'
             /\ results'[games[ci]] = Result(FALSE, "no_role", 0, 0)
             /\ info' = NoInfo /\ posts' = 0 /\ role_info' = 0]_vars

\* a sign_all returned whose first game had no role
C28_Witness ==
    /\ spc = "returned" /\ Len(causes) >= 1 /\ causes[1].how = "norole"
    /\ results[games[1]].message.tag = "no_role"

\* the i-th game was submitted with success
Submitted(i) == Stored(i) /\ causes[i].how = "ok" /\ ~causes[i].claimed

\* C29: after a successful submission the day is the total_sign_day of the
\* claim-info read before submitting, plus one; the result is a success that
\* names the award at the 1-based index day when the awards list has one,
\* and the plain success otherwise (list too short or empty): no index
\* outside the list is taken.
C29_RewardOfDay ==
    \A i \in 1..Len(causes) :
        Submitted(i) =>
            /\ results[games[i]].success
            /\ results[games[i]].message =
                 IF causes[i].entry
                   THEN [tag |-> "reward", n |-> causes[i].total + 1]
                   ELSE [tag |-> "signed", n |-> 0]

\* a sign_all returned whose first game was submitted at total 1 with an
\* award at index 2, and whose second game was submitted at total 1 with no
\* award at index 2
C29_Witness ==
    /\ spc = "returned" /\ Len(causes) >= 2
    /\ causes[1] = Fact("ok", FALSE, FALSE, 1, TRUE)
    /\ causes[2] = Fact("ok", FALSE, FALSE, 1, FALSE)
    /\ results[games[1]].message = [tag |-> "reward", n |-> 2]
    /\ results[games[2]].message.tag = "signed"

\* the claim-info query or the submission of the game at hand has just been
\* answered with a non-zero retcode
AppFailureAnswered ==
    /\ spc \in {"info", "post"}
    /\ Len(causes') = Len(causes) + 1
    /\ causes'[Len(causes')].how = "app"

\* C30: when the claim-info query or the submission is answered with a
\* non-zero retcode, sign returns a failure with the server's message (the
\* call's fallback text if the answer has none) and with the snapshot of the
\* first role of the list, taken before the call.
C30_AppFailureKeepsSnapshot ==
    [][AppFailureAnswered
          => /\ roles # <<>> /\ role_info = roles[1]
             /\ games[ci] \in DOMAIN results'
             /\ results'[games[ci]] =
                  Result(FALSE,
                         IF causes'[Len(causes')].msg THEN "server"
                         ELSE IF spc = "info" THEN "info_fallback" ELSE "sign_fallback",
                         0, roles[1])]_vars

\* a sign_all returned whose first game failed at the claim-info query and
\* whose second game failed at the submission, both with the server's
\* message and the snapshot of the first of two roles
C30_Witness ==
    /\ spc = "returned" /\ Len(causes) >= 2
    /\ causes[1] = Fact("app", TRUE, FALSE, 0, FALSE)
    /\ causes[2] = Fact("app", TRUE, FALSE, 1, FALSE)
    /\ results[games[1]] = Result(FALSE, "server", 0, 2)
    /\ results[games[2]] = Result(FALSE, "server", 0, 2)

\* sign is at work on the game at hand, or sign_all sleeps after it, and
\* the results recorded are those of the known games before it, and its own
\* once sign_all sleeps
GameAtHand ==
    spc \in {"roles", "info", "post", "home", "sleep"} =>
        /\ ci \in 1..Len(games) /\ games[ci] \in GAMES
        /\ \A j \in 1..(ci - 1) : games[j] \in GAMES => games[j] \in DOMAIN results
        /\ \A j \in (ci + 1)..Len(games) : games[j] \notin DOMAIN results
        /\ (games[ci] \in DOMAIN results) = (spc = "sleep")

\* C31: within one sign_all the games are handled one after another in the
\* order of the list: while the calls of a game are made every known game
\* before it has its result recorded and no game after it has one, and the
\* loop moves on to the next game only when the sleep after the recorded
\* result has ended (or past a key GAMES does not hold).
C31_GamesInOrder ==
    [][/\ GameAtHand'
       /\ (ci' # ci /\ ncalls' = ncalls) =>
             /\ ci' = ci + 1
             /\ \/ spc = "sleep" /\ games[ci] \in DOMAIN results
                \/ spc = "loop" /\ games[ci] \notin GAMES]_vars

\* the calls of the third game of a list are being made with the results of
\* the first two recorded
C31_Witness ==
    /\ spc = "post" /\ ci = 3 /\ games = <<"zzz", "genshin", "starrail">>
    /\ DOMAIN results = {"zzz", "genshin"}

\* C37: one sign sends at most one submission, and sends it only after the
\* role lookup gave a role and the claim-info query of that role was
\* answered with retcode 0 and is_sign false: sign comes to the submission
\* only from such an answer (one that records no failure), with the first
\* role's snapshot taken.
C37_OneSubmissionAfterInfo ==
    [][/\ posts' <= 1
       /\ (posts' # posts /\ posts' # 0) =>
             /\ spc = "post" /\ posts = 0 /\ posts' = 1
             /\ roles # <<>> /\ role_info = roles[1]
             /\ ~info.is_sign
       /\ (spc' = "post" /\ spc # "post") =>
             /\ spc = "info" /\ roles # <<>>
             /\ ~info'.is_sign /\ causes' = causes]_vars

\* the second game of a sign_all has sent its one submission, after the
\* first game sent its own
C37_Witness ==
    /\ ci = 2 /\ spc = "home" /\ posts = 1 /\ roles = <<2, 1>>
    /\ Len(causes) = 1 /\ Submitted(1)

\* ------------------------------------------------- credential string claims
\* where the "; " separators of a string begin
Separators(s) == {i \in 1..(Len(s) - 1) : s[i] = ";" /\ s[i + 1] = " "}

\* the fields of a string between its "; " separators
SplitFields(s) ==
    LET seps == Separators(s)
        sep(j) == CHOOSE i \in seps : Cardinality({x \in seps : x < i}) = j - 1
        first(j) == IF j = 1 THEN 1 ELSE sep(j - 1) + 2
        last(j) == IF j = Cardinality(seps) + 1 THEN Len(s) ELSE sep(j) - 1
    IN  [j \in 1..(Cardinality(seps) + 1) |-> SubSeq(s, first(j), last(j))]

\* a field cut at its first "="; a field without one is all key
KeyValue(f) ==
    IF \E i \in 1..Len(f) : f[i] = "="
    THEN LET i == CHOOSE i \in 1..Len(f) : f[i] = "=" /\ \A j \in 1..(i - 1) : f[j] # "="
         IN  <<SubSeq(f, 1, i - 1), SubSeq(f, i + 1, Len(f))>>
    ELSE <<f, <<>>>>

\* the key=value pairs read back from a credential string
ParseCredential(s) ==
    LET fields == SplitFields(s)
    IN  [i \in 1..Len(fields) |-> KeyValue(fields[i])]

\* the key=value pairs the k-th credential was built from, in the order of
\* cookie_parts, as characters
BuiltPairs(k) ==
    LET parts == CookieParts(cr_uid, cr_pair[k].stoken, cr_pair[k].mid,
                             cr_cookie_token, cr_ltoken)
    IN  [i \in 1..Len(parts) |-> <<KeyChars[parts[i][1]], ValueChars[parts[i][2]]>>]

CredBuilt(k) == cr_cookie # <<>> /\ cr_cookie[k] # <<>>

\* C24: two different (stoken, mid) pairs give different credential strings,
\* and a credential string split at "; " and at the first "=" of each field
\* gives back the key=value pairs it was built from, in the order of
\* cookie_parts.
C24_CredentialInjectiveRoundTrip ==
    /\ \A k \in 1..2 : CredBuilt(k) => ParseCredential(cr_cookie[k]) = BuiltPairs(k)
    /\ (CredBuilt(1) /\ CredBuilt(2) /\ cr_pair[1] # cr_pair[2])
           => cr_cookie[1] # cr_cookie[2]

\* both credentials are built, from pairs that differ in the mid only, one of
\* them with an "=" in the stoken and no mid, with both optional tokens
C24_Witness ==
    /\ CredBuilt(1) /\ CredBuilt(2)
    /\ cr_pair[1] = [stoken |-> "a=", mid |-> None]
    /\ cr_pair[2] = [stoken |-> "a=", mid |-> "a"]
    /\ cr_cookie_token = "a" /\ cr_ltoken = "a"

\* ------------------------------------------------------ DS signature claims
\* what get_ds is to return for salt, t, r
ExpectedV1(salt, t, r) == <<t, ",", r, ",", md5(<<"salt=", salt, "&t=", t, "&r=", r>>)>>

\* what get_ds2 is to return for salt, t, r, query, body
ExpectedV2(salt, t, r, query, body) ==
    <<t, ",", r, ",",
      md5(<<"salt=", salt, "&t=", t, "&r=", r, "&b=", body, "&q=", query>>)>>

\* C32: get_ds and get_ds2 are functions of the salt, the timestamp and the
\* nonce (and, for get_ds2, of the query and the body): two evaluations on
\* the same inputs return the same value, the digest is taken of exactly
\* salt=<salt>&t=<t>&r=<r>, followed for get_ds2 by &b=<body>&q=<query>, and
\* the value returned is timestamp,nonce,digest.
C32_DsDeterministic ==
    /\ \A i \in 1..Len(ds_log) :
          LET e == ds_log[i]
          IN  e.out = IF e.v = 1 THEN ExpectedV1(e.salt, e.t, e.r)
                      ELSE ExpectedV2(e.salt, e.t, e.r, e.query, e.body)
    /\ \A i, j \in 1..Len(ds_log) :
          [ds_log[i] EXCEPT !.out = 0] = [ds_log[j] EXCEPT !.out = 0]
              => ds_log[i].out = ds_log[j].out

\* get_ds2 was evaluated twice on the same timestamp, nonce, query and body,
\* neither of the two empty
C32_Witness ==
    /\ Len(ds_log) = 2 /\ ds_log[1] = ds_log[2]
    /\ ds_log[1].v = 2 /\ ds_log[1].query # "" /\ ds_log[1].body # ""

\* ------------------------------------------------------- QR login claims
\* stop() was called while check_login was polling: at its while test, in
\* its sleep, or with a check call in flight
StoppedWhilePolling == stop_at \in {"test", "sleep", "poll"}

\* C11: once stop was requested on a polling session, check_login returns no
\* credential: a poll that completes after the request gives back neither an
\* account id nor a game token.
C11_StopYieldsNoCredential ==
    (lpc = "checked" /\ StoppedWhilePolling) => (uid = None /\ game_token = None)

\* C27: once stop was requested on a polling check_login, a check call in
\* flight may finish, but the loop starts no further sleep and sends no
\* further check call.
C27_StopSkipsNextCycle ==
    [][(StoppedWhilePolling /\ stop_flag)
          => /\ ~(lpc = "test" /\ lpc' = "sleep")
             /\ ~(lpc = "sleep" /\ lpc' = "poll")]_vars

\* C33: a stop() called on the session after the QR code was obtained and
\* before check_login has begun to run is not lost: check_login, once
\* entered, returns without sleeping and without sending a check call.
C33_EarlyStopNotLost ==
    stop_at = "enter" => (lpc \notin {"sleep", "poll"} /\ seen = <<>>)

\* check_login's loop is running
Polling == lpc \in {"test", "sleep", "poll"}

\* the check call in flight has just been answered with an answer of kind k
AnsweredWith(k) == lpc = "poll" /\ Len(seen') = Len(seen) + 1 /\ seen'[Len(seen')].kind = k

\* C34: check_login's loop ends once stop is requested while it runs, and
\* it ends on a terminal answer (Confirmed, Expired, a non-zero retcode that
\* is no rate-limit code); a transport error, a rate-limit retcode, Init,
\* Scanned and an unknown stat never end it: the loop goes back to its test.
C34_PollingTerminates ==
    /\ (Polling /\ stop_flag /\ Len(seen) < MaxPolls) ~> ~Polling
    /\ [][\A k \in {"Confirmed", "Expired", "fail"} : AnsweredWith(k) => ~Polling']_vars
    /\ [][\A k \in {"transport", "limit", "Init", "Scanned", "Other"} :
             AnsweredWith(k) => lpc' = "test"]_vars

\* check_login has returned because of a stop requested during its sleep,
\* after a transport error, a rate-limit retcode and an unknown stat were
\* polled
C34_Witness ==
    /\ lpc = "checked" /\ stage["check"] = "stopped" /\ stop_at = "sleep"
    /\ Len(seen) = 3
    /\ {seen[i].kind : i \in 1..2} = {"transport", "limit"}
    /\ seen[3].kind = "Other"

\* the kinds of the answers check_login has polled, in order
SeenKinds == [i \in DOMAIN seen |-> seen[i].kind]

\* C12: when the check call was answered Init, then Scanned, then Confirmed,
\* check_login has returned on the third answer (no poll follows it) and what
\* it returned is the account id and the game token of the Confirmed payload.
C12_ConfirmedCarriesPayload ==
    SeenKinds = <<"Init", "Scanned", "Confirmed">> =>
        /\ lpc = "checked"
        /\ stage["check"] \in {"ok", "empty"}
        /\ uid = seen[3].uid
        /\ game_token = seen[3].token

\* Init, Scanned, Confirmed was polled and the payload's pair came back
C12_Witness ==
    /\ SeenKinds = <<"Init", "Scanned", "Confirmed">>
    /\ lpc = "checked" /\ uid = "u1" /\ game_token = "g1"

\* the last answer check_login polled
LastSeen == seen[Len(seen)]

\* C13: when the last answer polled is stat Expired or a non-zero retcode that
\* is not a rate-limit code, check_login has returned on it (no poll follows)
\* and returned neither an account id nor a token.
C13_TerminalFailure ==
    (seen # <<>> /\ LastSeen.kind \in {"Expired", "fail"}) =>
        /\ lpc = "checked"
        /\ uid = None /\ game_token = None
        /\ stage["check"] \in {"expired", "app"}

\* a scan was under way when the server answered with a non-retryable retcode
C13_Witness ==
    /\ Len(seen) = 2 /\ seen[1].kind = "Scanned" /\ seen[2].kind = "fail"
    /\ lpc = "checked" /\ uid = None

\* a rate-limit retcode or a transport error
Transient(e) == e.kind \in {"limit", "transport"}

\* the polled answers without the transient ones
RECURSIVE Essential(_)
Essential(sq) ==
    IF sq = <<>> THEN <<>>
    ELSE (IF Transient(Head(sq)) THEN <<>> ELSE <<Head(sq)>>) \o Essential(Tail(sq))

\* what a script of answers without transient ones leads to: the first
\* terminal answer decides, and without one the loop is still polling
RECURSIVE ScriptOutcome(_)
ScriptOutcome(sq) ==
    IF sq = <<>> THEN <<"polling", None, None>>
    ELSE CASE Head(sq).kind = "Confirmed" -> <<"returned", Head(sq).uid, Head(sq).token>>
           [] Head(sq).kind \in {"Expired", "fail"} -> <<"returned", None, None>>
           [] Head(sq).kind = "malformed" -> <<"raised", None, None>>
           [] OTHER -> ScriptOutcome(Tail(sq))

\* check_login is running or has just ended, and not because of a stop
InCheckLogin ==
    /\ lpc \in {"test", "sleep", "poll", "checked", "raised"}
    /\ stage["check"] \notin {"no", "stopped"}
    /\ stage["stoken"] = "no"

\* what check_login has come to
CheckOutcome ==
    CASE lpc = "checked" -> <<"returned", uid, game_token>>
      [] lpc = "raised" -> <<"raised", None, None>>
      [] OTHER -> <<"polling", None, None>>

\* C14: what check_login comes to is what the polled answers without the
\* rate-limit retcodes and the transport errors lead to: such answers, however
\* many and wherever they come before the terminal one, change nothing.
C14_TransientsChangeNothing ==
    InCheckLogin => CheckOutcome = ScriptOutcome(Essential(seen))

\* a rate-limit retcode and a transport error came before Confirmed, and the
\* payload's pair was returned
C14_Witness ==
    /\ SeenKinds = <<"limit", "transport", "Confirmed">>
    /\ lpc = "checked" /\ uid = "u1" /\ game_token = "g1"

\* the ways a stage's call ends without what the stage is for
FailureOutcomes == {"transport", "malformed", "app", "empty", "expired", "stopped"}

\* the QR request, the polling and the session-token exchange
Mandatory == 1..3

C16_OptionalFailureTolerated ==
    /\ stage["cookie"] \in {"app", "transport"} => stage["ltoken"] # "no"
    /\ stage["ltoken"] \in {"app", "transport"} => (lpc = "build" \/ cookie # <<>>)

\* the keys of a credential's key=value pairs, in order
Keys(c) == [i \in DOMAIN c |-> c[i][1]]

\* the field order the credential format documents
DocumentedKeys(withCookieToken, withLtoken) ==
    <<"stuid", "ltuid", "ltuid_v2", "account_id", "account_id_v2", "stoken", "mid",
      "ltmid_v2">>
    \o (IF withCookieToken THEN <<"cookie_token", "cookie_token_v2", "account_mid_v2">>
        ELSE <<>>)
    \o (IF withLtoken THEN <<"ltoken", "ltoken_v2">> ELSE <<>>)

\* C17: every credential built holds its key=value pairs in the documented
\* order: the eight mandatory keys, then the three cookie-token keys exactly
\* when the cookie-token exchange succeeded, then the two long-token keys
\* exactly when the long-token exchange succeeded.
C17_CredentialFormat ==
    cookie # <<>> =>
        Keys(cookie) = DocumentedKeys(stage["cookie"] = "ok", stage["ltoken"] = "ok")

\* a credential built after a refused cookie-token exchange and a successful
\* long-token exchange
C17_Witness ==
    /\ cookie # <<>> /\ stage["cookie"] = "app" /\ stage["ltoken"] = "ok"
    /\ Len(cookie) = Len(DocumentedKeys(FALSE, TRUE))

\* the keys every credential must hold a value for
MandatoryKeys == {"stuid", "ltuid", "ltuid_v2", "account_id", "account_id_v2", "stoken",
                  "mid", "ltmid_v2"}

\* C38: every credential built holds a present, non-empty value for each
\* mandatory key: none is built when the account id, the session token or
\* the mid of the session-token exchange is missing.
C38_MandatoryFieldsPresent ==
    \A i \in DOMAIN cookie : cookie[i][1] \in MandatoryKeys => ~Falsy(cookie[i][2])

\* --------------------------------------------------- account store claims
\* C40: from an empty store, after any calls of add_account, remove_account
\* and set_current_account the current-account id is "" exactly when the
\* store holds no account, and is otherwise the id of an account in the store.
C40_CurrentIsInStore ==
    /\ (st_current = "") = (st_accounts = <<>>)
    /\ st_current # "" => st_current \in AccountKeys(st_accounts)

\* the current account was removed while others stayed: the account now
\* current was not the first one added
C40_Witness ==
    /\ st_call = [op |-> "remove_account", id |-> "10001", result |-> "True"]
    /\ Len(st_accounts) = 2
    /\ st_current = "10003" /\ st_accounts[1] = "10003"

\* the account store of the other two specifications: every account active
RunIdle ==
    /\ is_active = [a \in AcctIds |-> TRUE]
    /\ unsaved = {}
    /\ worker = [w \in Workers |-> Idle]

Init == SchedInit /\ ClaimInit /\ RunIdle /\ LoginInit /\ LockInit /\ CfgInit /\ CredIdle /\ DsInit /\ TickInit /\ StoreInit

Next == SchedNext

Spec == Init /\ [][Next]_vars

InitClaim == SchedInit /\ clock.slot = 1 /\ ClaimInit /\ RunIdle /\ LoginInit /\ LockInit /\ CfgInit /\ CredIdle /\ DsInit /\ TickInit /\ StoreInit

SpecClaim == InitClaim /\ [][ClaimNext]_vars

InitRun == SchedInit /\ clock.slot = 1 /\ ClaimInit /\ RunInit /\ LoginInit /\ LockInit /\ CfgInit /\ CredIdle /\ DsInit /\ TickInit /\ StoreInit

SpecRun == InitRun /\ [][RunNext]_vars

InitLogin == SchedInit /\ clock.slot = 1 /\ ClaimInit /\ RunIdle /\ LoginInit /\ LockInit /\ CfgInit /\ CredIdle /\ DsInit /\ TickInit /\ StoreInit

SpecLogin == InitLogin /\ [][LoginNext]_vars

\* the polling thread runs: a while test is made, a sleep ends, and a check
\* call that was sent is answered or fails
SpecLoginLive ==
    /\ InitLogin /\ [][LoginNext]_vars
    /\ WF_vars(PollTest) /\ WF_vars(PollSend) /\ WF_vars(\E r \in PollResps : PollAnswer(r))

InitLock == SchedInit /\ clock.slot = 1 /\ ClaimInit /\ RunIdle /\ LoginInit /\ LockInit /\ CfgInit /\ CredIdle /\ DsInit /\ TickInit /\ StoreInit

SpecLock == InitLock /\ [][LockNext]_vars

InitCfg == SchedInit /\ clock.slot = 1 /\ ClaimInit /\ RunIdle /\ LoginInit /\ LockInit /\ CfgInit /\ CredIdle /\ DsInit /\ TickInit /\ StoreInit

SpecCfg == InitCfg /\ [][CfgNext]_vars

InitCred == SchedInit /\ clock.slot = 1 /\ ClaimInit /\ RunIdle /\ LoginInit /\ LockInit /\ CfgInit /\ CredInit /\ DsInit /\ TickInit /\ StoreInit

SpecCred == InitCred /\ [][CredNext]_vars

InitDs == SchedInit /\ clock.slot = 1 /\ ClaimInit /\ RunIdle /\ LoginInit /\ LockInit /\ CfgInit /\ CredIdle /\ DsInit /\ TickInit /\ StoreInit

SpecDs == InitDs /\ [][DsNext]_vars

InitStore == SchedInit /\ clock.slot = 1 /\ ClaimInit /\ RunIdle /\ LoginInit /\ LockInit /\ CfgInit /\ CredIdle /\ DsInit /\ TickInit /\ StoreInit

SpecStore == InitStore /\ [][StoreNext]_vars

InitTick == SchedInit /\ clock.slot = 1 /\ ClaimInit /\ RunIdle /\ LoginInit /\ LockInit /\ CfgInit /\ CredIdle /\ DsInit /\ TickInit /\ StoreInit

SpecTick == InitTick /\ [][TickNext]_vars

====
